---- MODULE Spec2Model ----
(***************************************************************************)
(* Model of the solar shortfall-insurance risk pipeline: payout engine,    *)
(* fiscal-year annual aggregation, and the run()/dashboard drivers.        *)
(***************************************************************************)
EXTENDS Integers, Sequences, FiniteSets, TLC

VARIABLES
    strike,   \* payout schedule: strike threshold
    exit,     \* payout schedule: exit threshold
    ppa,      \* payout schedule: PPA rate
    call,     \* the most recent library call: its arguments and what it returned
    pc,       \* position of the driver (run() or the dashboard script)
    path,     \* which driver runs: "cli", "backup" or "dashboard"
    sub,      \* driver: the analysis-window table
    limit,    \* driver: the limit returned by calculate_payouts
    sobol,    \* driver: the quasi-random numbers read from the Sobol file
    gparams,  \* driver: the fitted gamma parameters
    mapped,   \* driver: the values mapped through the inverse gamma CDF
    blown,    \* driver: the blown simulated values
    eloss,    \* driver: the arguments and result of the expected-loss step
    blowcfg,  \* driver: blow point, factor, direction and shift
    err,      \* driver: the exception that ended the run, "none" if none
    hourly,   \* driver: df, the input table and then with Hourly_Energy_kWh
    monthly,  \* driver: the monthly table
    yearly,   \* driver: the annual rows, then with Rescaled_Energy_MWh
    cfg,      \* driver: detrending method, analysis window and bandwidth
    done,     \* driver: the stages of run() started so far, in order
    out,      \* driver: what was printed, shown or saved so far, in order
    GLOBAL_STORE,  \* ssrd_zarr_adapter: the module-level _GLOBAL_STORE
    opened,        \* ssrd_zarr_adapter: zarr_path of every SSRDStore built so far
    series_cache   \* ssrd_zarr_adapter: lru_cache of _series_at_index, oldest first

vars ==
    <<strike, exit, ppa, call, pc, path, sub, limit, sobol, gparams, mapped, blown, eloss,
      blowcfg, err, hourly, monthly, yearly, cfg, done, out, GLOBAL_STORE, opened,
      series_cache>>

----------------------------------------------------------------------------
(* Bounds of the model *)

MaxLen == 3
MaxRows == 2

----------------------------------------------------------------------------
(* Floating-point values.  Finite values are integers; NaN is one reserved  *)
(* value that every numpy operation propagates.  A mean is kept exactly as  *)
(* the fraction sum/count, so the mean of nothing is 0/0.                   *)

NaN == -999999

IsNaN(x) == x = NaN

Sub(a, b) == IF IsNaN(a) \/ IsNaN(b) THEN NaN ELSE a - b

Add(a, b) == IF IsNaN(a) \/ IsNaN(b) THEN NaN ELSE a + b

Mul(a, b) == IF IsNaN(a) \/ IsNaN(b) THEN NaN ELSE a * b

\* np.minimum / np.maximum: elementwise, NaN-propagating
Minimum(a, b) == IF IsNaN(a) \/ IsNaN(b) THEN NaN ELSE IF a <= b THEN a ELSE b

Maximum(a, b) == IF IsNaN(a) \/ IsNaN(b) THEN NaN ELSE IF a >= b THEN a ELSE b

\* np.clip(x, lo, hi) is minimum(maximum(x, lo), hi), also when lo > hi
Clip(x, lo, hi) == Minimum(Maximum(x, lo), hi)

RECURSIVE SeqSum(_)
SeqSum(s) == IF s = <<>> THEN 0 ELSE Add(Head(s), SeqSum(Tail(s)))

NaNFrac == [num |-> 0, den |-> 0]

\* ndarray.mean(): sum / count; 0/0 for an empty array, NaN if any element is
Mean(s) ==
    IF IsNaN(SeqSum(s)) THEN NaNFrac ELSE [num |-> SeqSum(s), den |-> Len(s)]

----------------------------------------------------------------------------
(* Tables (DataFrames): a set of column names and a sequence of rows.       *)

Column(t, name) == [i \in 1..Len(t.rows) |-> t.rows[i][name]]

SetColumn(t, name, col) ==
    [columns |-> t.columns \cup {name},
     rows |-> [i \in 1..Len(t.rows) |->
                  [c \in t.columns \cup {name} |->
                      IF c = name THEN col[i] ELSE t.rows[i][c]]]]

----------------------------------------------------------------------------
(* Payout engine: solar/payouts.py and its backup                           *)

PayoutColumn_NoFloor(col, s, p, lim) ==
    [i \in 1..Len(col) |-> Minimum(lim, Mul(Sub(s, col[i]), p))]

\* np.minimum(limit, np.maximum(0.0, strike - column) * ppa)
PayoutColumn(col, s, p, lim) ==
    [i \in 1..Len(col) |-> Minimum(lim, Mul(Maximum(0, Sub(s, col[i])), p))]

KeyError == [raised |-> "KeyError"]

calculate_payouts_SameColumn(df, s, e, p) ==
    IF ~({"Rescaled_Energy_MWh", "User_Detrended"} \subseteq df.columns)
    THEN [ret |-> KeyError, df_after |-> df]
    ELSE LET lim == (s - e) * p
             d1 == SetColumn(df, "Payout_Untrended",
                       PayoutColumn(Column(df, "Rescaled_Energy_MWh"), s, p, lim))
             d2 == SetColumn(d1, "Payout_Detrended",
                       PayoutColumn(Column(d1, "Rescaled_Energy_MWh"), s, p, lim))
         IN [ret |-> [df |-> d2, limit |-> lim], df_after |-> df]

\* solar/payouts.py: works on a copy; a missing column is a pandas KeyError
calculate_payouts(df, s, e, p) ==
    IF ~({"Rescaled_Energy_MWh", "User_Detrended"} \subseteq df.columns)
    THEN [ret |-> KeyError, df_after |-> df]
    ELSE LET lim == (s - e) * p
             d1 == SetColumn(df, "Payout_Untrended",
                       PayoutColumn(Column(df, "Rescaled_Energy_MWh"), s, p, lim))
             d2 == SetColumn(d1, "Payout_Detrended",
                       PayoutColumn(Column(d1, "User_Detrended"), s, p, lim))
         IN [ret |-> [df |-> d2, limit |-> lim], df_after |-> df]

\* backup payouts.py: fills a missing User_Detrended from Rescaled_Energy_MWh
\* and writes the new columns into the caller's table
calculate_payouts_backup(df, s, e, p) ==
    IF "User_Detrended" \notin df.columns /\ "Rescaled_Energy_MWh" \notin df.columns
    THEN [ret |-> KeyError, df_after |-> df]
    ELSE LET d0 == IF "User_Detrended" \notin df.columns
                   THEN SetColumn(df, "User_Detrended", Column(df, "Rescaled_Energy_MWh"))
                   ELSE df
         IN IF "Rescaled_Energy_MWh" \notin d0.columns
            THEN [ret |-> KeyError, df_after |-> d0]
            ELSE LET lim == (s - e) * p
                     d1 == SetColumn(d0, "Payout_Untrended",
                               PayoutColumn(Column(d0, "Rescaled_Energy_MWh"), s, p, lim))
                     d2 == SetColumn(d1, "Payout_Detrended",
                               PayoutColumn(Column(d1, "User_Detrended"), s, p, lim))
                 IN [ret |-> [df |-> d2, limit |-> lim], df_after |-> d2]

PayoutClip_NoUpper(values, s, e, p) ==
    [i \in 1..Len(values) |-> Mul(Maximum(Sub(s, values[i]), 0), p)]

\* payout = np.clip(strike - values, 0.0, strike - exit) * ppa
PayoutClip(values, s, e, p) ==
    [i \in 1..Len(values) |-> Mul(Clip(Sub(s, values[i]), 0, s - e), p)]

CapAtLimit_Dropped(payout, lim) == payout

\* np.minimum(payout, limit)
CapAtLimit(payout, lim) ==
    [i \in 1..Len(payout) |-> Minimum(payout[i], lim)]

\* the per-sample arrays and the returned mean
expected_loss(values, s, e, p, lim) ==
    LET payout == PayoutClip(values, s, e, p)
        capped == CapAtLimit(payout, lim)
    IN [payout |-> payout, capped |-> capped, ret |-> Mean(capped)]

inline_expected_loss_NoFloor(blown_, s, e, p, lim) ==
    Mean([i \in 1..Len(blown_) |->
             Minimum(Mul(Minimum(Sub(s, blown_[i]), s - e), p), lim)])

\* app.py: payouts = np.clip((strike - blown), 0, strike - exit) * ppa_rate;
\* payouts = np.minimum(payouts, limit); expected_loss = payouts.mean()
inline_expected_loss(blown_, s, e, p, lim) ==
    LET payouts == [i \in 1..Len(blown_) |->
                       Mul(Minimum(Maximum(Sub(s, blown_[i]), 0), s - e), p)]
        capped == [i \in 1..Len(payouts) |-> Minimum(payouts[i], lim)]
    IN Mean(capped)

----------------------------------------------------------------------------
(* Inputs of the payout engine *)

Energies == {90, 105, 120, 130}
Strikes == {100, 105, 110}
Exits == {90, 100, 110}
PPAs == {-1, 0, 5000}

SeqsUpTo(S, n) == UNION {[1..k -> S] : k \in 0..n}

PayoutColumnSets ==
    {{"Rescaled_Energy_MWh", "User_Detrended"}, {"Rescaled_Energy_MWh"}, {"User_Detrended"}}

PayoutTables ==
    {[columns |-> cs, rows |-> rs] : cs \in PayoutColumnSets, rs \in {<<>>}} \cup
    UNION {{[columns |-> cs, rows |-> rs] : rs \in SeqsUpTo([cs -> Energies], MaxRows) \ {<<>>}}
              : cs \in PayoutColumnSets}

LimitArgs(s, e, p) == {(s - e) * p, 20000}

NoCall == [op |-> "none"]

Idle == "idle"

NoTable == [columns |-> {}, rows |-> <<>>]

NoParams == [shape |-> NaNFrac, scale |-> NaNFrac, state |-> "unbound"]

NoEloss == [limit |-> NaN, ret |-> NaNFrac, state |-> "unbound"]

NoBlow == [point |-> 0, factor |-> 0, dir |-> "D", shift |-> 0]

NoSource == [exists |-> FALSE, hasDate |-> FALSE, rows |-> <<>>]

NoCfg == [method |-> "none", start |-> 0, end |-> 0, bw |-> 0]

None == [none |-> TRUE]

\* the variables of the Zarr adapter
storeVars == <<GLOBAL_STORE, opened, series_cache>>

StoreIdle == GLOBAL_STORE = None /\ opened = <<>> /\ series_cache = <<>>

\* the variables of the stages before the payouts
inputVars == <<hourly, monthly, yearly, cfg>>

InputsIdle == hourly = NoSource /\ monthly = <<>> /\ yearly = <<>> /\ cfg = NoCfg

DriverIdle ==
    /\ pc = Idle /\ path = "none" /\ sub = NoTable /\ limit = NaN /\ sobol = <<>>
    /\ gparams = NoParams /\ mapped = <<>> /\ blown = <<>> /\ eloss = NoEloss
    /\ blowcfg = NoBlow /\ err = "none"
    /\ InputsIdle /\ done = <<>> /\ out = <<>>
    /\ StoreIdle

driverVars ==
    <<pc, path, sub, limit, sobol, gparams, mapped, blown, eloss, blowcfg, err,
      inputVars, done, out, storeVars>>

InitPayouts ==
    /\ strike \in Strikes /\ exit \in Exits /\ ppa \in PPAs
    /\ call = NoCall
    /\ DriverIdle

CallCalculatePayouts ==
    /\ call = NoCall
    /\ \E df \in PayoutTables :
          LET r == calculate_payouts(df, strike, exit, ppa)
          IN call' = [op |-> "calculate_payouts", df |-> df,
                      ret |-> r.ret, df_after |-> r.df_after]
    /\ UNCHANGED <<strike, exit, ppa, driverVars>>

CallCalculatePayoutsBackup ==
    /\ call = NoCall
    /\ \E df \in PayoutTables :
          LET r == calculate_payouts_backup(df, strike, exit, ppa)
          IN call' = [op |-> "calculate_payouts_backup", df |-> df,
                      ret |-> r.ret, df_after |-> r.df_after]
    /\ UNCHANGED <<strike, exit, ppa, driverVars>>

CallExpectedLoss ==
    /\ call = NoCall
    /\ \E values \in SeqsUpTo(Energies, MaxLen), lim \in LimitArgs(strike, exit, ppa) :
          LET r == expected_loss(values, strike, exit, ppa, lim)
          IN call' = [op |-> "expected_loss", values |-> values, limit |-> lim,
                      payout |-> r.payout, capped |-> r.capped, ret |-> r.ret]
    /\ UNCHANGED <<strike, exit, ppa, driverVars>>

\* both payout rules on the same values: calculate_payouts on a table whose
\* two energy columns hold them, expected_loss and the dashboard's inline
\* computation on the array, with the limit calculate_payouts returned
CallPayoutRules ==
    /\ call = NoCall
    /\ \E values \in SeqsUpTo(Energies, MaxLen), backup \in BOOLEAN :
          LET df == [columns |-> {"Rescaled_Energy_MWh", "User_Detrended"},
                     rows |-> [i \in 1..Len(values) |->
                                  [c \in {"Rescaled_Energy_MWh", "User_Detrended"}
                                      |-> values[i]]]]
              r == IF backup THEN calculate_payouts_backup(df, strike, exit, ppa)
                   ELSE calculate_payouts(df, strike, exit, ppa)
          IN call' = [op |-> "payout_rules", values |-> values, backup |-> backup,
                      rows |-> Column(r.ret.df, "Payout_Detrended"),
                      row_mean |-> Mean(Column(r.ret.df, "Payout_Detrended")),
                      ret |-> expected_loss(values, strike, exit, ppa, r.ret.limit).ret,
                      inline |-> inline_expected_loss(values, strike, exit, ppa,
                                                      r.ret.limit)]
    /\ UNCHANGED <<strike, exit, ppa, driverVars>>

NextPayouts ==
    \/ CallCalculatePayouts
    \/ CallCalculatePayoutsBackup
    \/ CallExpectedLoss
    \/ CallPayoutRules

SpecPayouts == InitPayouts /\ [][NextPayouts]_vars

----------------------------------------------------------------------------
(* Calendar arithmetic of pandas Timestamps (proleptic Gregorian), in hours *)

IsLeap(y) == (y % 4 = 0 /\ y % 100 # 0) \/ y % 400 = 0

DaysBeforeYear(y) ==
    365 * (y - 1) + ((y - 1) \div 4) - ((y - 1) \div 100) + ((y - 1) \div 400)

MonthLengths(y) ==
    <<31, IF IsLeap(y) THEN 29 ELSE 28, 31, 30, 31, 30, 31, 31, 30, 31, 30, 31>>

RECURSIVE DaysBeforeMonth(_, _)
DaysBeforeMonth(y, m) ==
    IF m = 1 THEN 0 ELSE DaysBeforeMonth(y, m - 1) + MonthLengths(y)[m - 1]

\* pd.Timestamp(y, m, d) exists only for a real calendar day (else ValueError)
DateExists(y, m, d) == m \in 1..12 /\ d >= 1 /\ d <= MonthLengths(y)[m]

HoursPerDay == 24

Timestamp(y, m, d, h) ==
    (DaysBeforeYear(y) + DaysBeforeMonth(y, m) + d) * HoursPerDay + h

Days(n) == n * HoursPerDay

NaT == [valid |-> FALSE, y |-> 0, m |-> 0, d |-> 0, h |-> 0]

Stamp(y, m, d, h) == [valid |-> TRUE, y |-> y, m |-> m, d |-> d, h |-> h]

At(date) == Timestamp(date.y, date.m, date.d, date.h)

----------------------------------------------------------------------------
(* Annual aggregation: calculate_annual_energy, solar/ and build/lib/       *)

YearMax == 2024
YearMin == 1980
WindowDays == 365
KwhPerMwh == 1000

\* df.dropna(subset=["Date"])
DropNaT(rows) == SelectSeq(rows, LAMBDA r : r.Date.valid)

RECURSIVE InsertByDate(_, _)
InsertByDate(r, s) ==
    IF s = <<>> THEN <<r>>
    ELSE IF At(r.Date) < At(Head(s).Date) THEN <<r>> \o s
    ELSE <<Head(s)>> \o InsertByDate(r, Tail(s))

\* df.sort_values("Date") on rows with valid dates
RECURSIVE SortByDate(_)
SortByDate(rows) ==
    IF rows = <<>> THEN <<>>
    ELSE InsertByDate(rows[Len(rows)], SortByDate(SubSeq(rows, 1, Len(rows) - 1)))

\* df["Date"].dt.year.unique(): the years in order of first appearance
RECURSIVE UniqueYears(_, _)
UniqueYears(rows, seen) ==
    IF rows = <<>> THEN <<>>
    ELSE IF Head(rows).Date.y \in seen THEN UniqueYears(Tail(rows), seen)
    ELSE <<Head(rows).Date.y>> \o UniqueYears(Tail(rows), seen \cup {Head(rows).Date.y})

WindowStart(y) == Timestamp(y, 9, 1, 0)

\* end = start + 365 days, one more if Timestamp(y, 2, 29) exists and lies
\* in [start, end]; a ValueError for a missing Feb 29 is swallowed
WindowEnd(y) ==
    LET start == WindowStart(y)
        end == start + Days(WindowDays)
    IN IF DateExists(y, 2, 29)
          /\ start <= Timestamp(y, 2, 29, 0) /\ Timestamp(y, 2, 29, 0) <= end
       THEN end + Days(1)
       ELSE end

\* mask = (df["Date"] >= start) & (df["Date"] <= end)
InWindow(r, y) ==
    At(r.Date) >= WindowStart(y) /\ At(r.Date) <= WindowEnd(y)

RECURSIVE SumKwh(_)
SumKwh(rows) ==
    IF rows = <<>> THEN 0 ELSE Head(rows).Hourly_Energy_kWh + SumKwh(Tail(rows))

\* one output row: {"Year": int(y), "Energy_MWh_Hourly": total_kwh / 1000.0}
AnnualRow(rows, y) ==
    [Year |-> y,
     Energy_MWh_Hourly |->
         [num |-> SumKwh(SelectSeq(rows, LAMBDA r : InWindow(r, y))), den |-> KwhPerMwh]]

Raised(e) == [raised |-> e]

\* calculate_annual_energy without the check that follows dropna
calculate_annual_energy_NoEmptyCheck(df) ==
    IF ~df.hasDate THEN Raised("ValueError")
    ELSE LET sorted == SortByDate(DropNaT(df.rows))
             years == SelectSeq(UniqueYears(sorted, {}), LAMBDA y : ~(y > YearMax))
         IN [rows |-> [i \in 1..Len(years) |-> AnnualRow(sorted, years[i])]]

\* solar/data_processing.py
calculate_annual_energy(df) ==
    IF ~df.hasDate THEN Raised("ValueError")
    ELSE LET valid == DropNaT(df.rows)
         IN IF valid = <<>> THEN Raised("ValueError")
            ELSE LET sorted == SortByDate(valid)
                     years == SelectSeq(UniqueYears(sorted, {}), LAMBDA y : ~(y > YearMax))
                 IN [rows |-> [i \in 1..Len(years) |-> AnnualRow(sorted, years[i])]]

\* build/lib/solar/data_processing.py: no date parsing or checks; a NaT year
\* makes pd.Timestamp raise; the range filter needs a 'Year' column
calculate_annual_energy_build(df) ==
    IF ~df.hasDate THEN Raised("KeyError")
    ELSE IF \E i \in 1..Len(df.rows) : ~df.rows[i].Date.valid THEN Raised("TypeError")
    ELSE IF df.rows = <<>> THEN Raised("KeyError")
    ELSE LET sorted == SortByDate(df.rows)
             years == UniqueYears(sorted, {})
             all == [i \in 1..Len(years) |-> AnnualRow(sorted, years[i])]
         IN [rows |-> SelectSeq(all, LAMBDA o : o.Year >= YearMin /\ o.Year <= YearMax)]

----------------------------------------------------------------------------
(* Inputs of the annual aggregation *)

MaxHourly == 3

HourlyDates ==
    {Stamp(1979, 10, 1, 0), Stamp(2000, 9, 1, 0), Stamp(2001, 3, 15, 0),
     Stamp(2002, 9, 1, 0), Stamp(2003, 10, 1, 0), Stamp(2004, 8, 31, 12),
     Stamp(2024, 9, 1, 0), Stamp(2025, 10, 1, 0), NaT}

HourlyKwh == {500, 2000}

\* the dates outside 1980..2024, the dates at the end of a window and the
\* missing date carry one energy value
EdgeDates ==
    {Stamp(1979, 10, 1, 0), Stamp(2004, 8, 31, 12), Stamp(2024, 9, 1, 0),
     Stamp(2025, 10, 1, 0), NaT}

HourlyRows ==
    [Date : HourlyDates \ EdgeDates, Hourly_Energy_kWh : HourlyKwh]
        \cup [Date : EdgeDates, Hourly_Energy_kWh : {500}]

HourlyTables ==
    {[hasDate |-> TRUE, rows |-> rs] : rs \in SeqsUpTo(HourlyRows, MaxHourly)}
        \cup {[hasDate |-> FALSE, rows |-> <<>>]}

InitAnnual ==
    /\ strike = 110 /\ exit = 100 /\ ppa = 5000
    /\ call = NoCall
    /\ DriverIdle

CallCalculateAnnualEnergy ==
    /\ call = NoCall
    /\ \E df \in HourlyTables :
          call' = [op |-> "calculate_annual_energy", df |-> df,
                   ret |-> calculate_annual_energy(df)]
    /\ UNCHANGED <<strike, exit, ppa, driverVars>>

CallCalculateAnnualEnergyBuild ==
    /\ call = NoCall
    /\ \E df \in HourlyTables :
          call' = [op |-> "calculate_annual_energy_build", df |-> df,
                   ret |-> calculate_annual_energy_build(df)]
    /\ UNCHANGED <<strike, exit, ppa, driverVars>>

NextAnnual ==
    \/ CallCalculateAnnualEnergy
    \/ CallCalculateAnnualEnergyBuild

SpecAnnual == InitAnnual /\ [][NextAnnual]_vars

----------------------------------------------------------------------------
(* Gamma fit, quasi-random mapping and blow                                 *)

RECURSIVE SumSquares(_)
SumSquares(s) == IF s = <<>> THEN 0 ELSE Head(s) * Head(s) + SumSquares(Tail(s))

\* n * sum(x^2) - sum(x)^2: the sample variance times n (n - 1)
ScaledVariance(values) ==
    Len(values) * SumSquares(values) - SeqSum(values) * SeqSum(values)

Abs(x) == IF x < 0 THEN -x ELSE x

RECURSIVE GCD(_, _)
GCD(a, b) == IF b = 0 THEN a ELSE GCD(b, a % b)

\* a fraction in lowest terms with a denominator >= 0; x/0 is kept as
\* 1/0 (inf), -1/0 (-inf) or 0/0 (NaN)
Reduce(f) ==
    LET g == GCD(Abs(f.num), Abs(f.den))
        sign == IF f.den < 0 THEN -1 ELSE 1
    IN IF g = 0 THEN NaNFrac
       ELSE [num |-> sign * (f.num \div g), den |-> sign * (f.den \div g)]

\* a NaN among the values makes mean and std NaN
HasNaN(values) == \E i \in 1..Len(values) : IsNaN(values[i])

\* build/lib gamma_model.py: mean, std(ddof=1), shape = (mean/std)^2,
\* scale = std^2/mean, kept as exact fractions; no guard, so fewer than two
\* values give 0/0 and a constant series gives shape x/0
calculate_gamma_parameters(values) ==
    LET n == Len(values)
        S == SeqSum(values)
    IN IF HasNaN(values)
       THEN [shape |-> NaNFrac, scale |-> NaNFrac, state |-> "value"]
       ELSE [shape |-> Reduce([num |-> S * S * (n - 1), den |-> n * ScaledVariance(values)]),
             scale |-> Reduce([num |-> ScaledVariance(values), den |-> (n - 1) * S]),
             state |-> "value"]

\* gamma_params as specified: fails below two values, the sentinel (1, 1) for
\* std <= 0 or mean <= 0, the method of moments otherwise
gamma_params(values) ==
    IF Len(values) < 2 THEN Raised("ValueError")
    ELSE IF HasNaN(values) THEN calculate_gamma_parameters(values)
    ELSE IF ScaledVariance(values) <= 0 \/ SeqSum(values) <= 0
    THEN [shape |-> [num |-> 1, den |-> 1], scale |-> [num |-> 1, den |-> 1],
          state |-> "value"]
    ELSE calculate_gamma_parameters(values)

\* quasi-random numbers are kept in tenths: QOne is 1.0
QOne == 10

PosInf == 999999

FracPositive(f) == f.den # 0 /\ f.num * f.den > 0

\* scipy gamma.ppf(q, a=shape, scale=scale): NaN for q outside [0,1] or for
\* parameters that are not positive numbers, 0 at q = 0, inf at q = 1, and
\* in between a value that grows with q and with the mean shape * scale
GammaPPF(q, g) ==
    IF IsNaN(q) \/ q < 0 \/ q > QOne THEN NaN
    ELSE IF ~FracPositive(g.shape) \/ ~FracPositive(g.scale) THEN NaN
    ELSE IF q = 0 THEN 0
    ELSE IF q = QOne THEN PosInf
    ELSE LET mean == Reduce([num |-> g.shape.num * g.scale.num,
                             den |-> g.shape.den * g.scale.den])
         IN (mean.num * (q + 5)) \div (mean.den * QOne)

MapPPF(cells, g) == [i \in 1..Len(cells) |-> GammaPPF(cells[i], g)]

InUnitInterval(cells) == \A i \in 1..Len(cells) : cells[i] >= 0 /\ cells[i] <= QOne

\* backup sobol_sim.py: first column, NaN cells dropped, every number checked
\* to lie in [0,1] before the gamma PPF is applied
sobol_sim(g, file) ==
    IF ~file.hasColumn THEN Raised("ValueError")
    ELSE LET sobol_numbers == SelectSeq(file.cells, LAMBDA c : ~IsNaN(c))
         IN IF ~InUnitInterval(sobol_numbers) THEN Raised("ValueError")
            ELSE [values |-> MapPPF(sobol_numbers, g)]

RECURSIVE Pow2(_)
Pow2(k) == IF k = 0 THEN 1 ELSE 2 * Pow2(k - 1)

\* the multiplier taken as 1 whatever the factor
TimesExpNeg_One(x, k) == x

\* x * exp(-blow_factor / 100), with blow_factor counted in units of
\* 100 ln 2 so that the multiplier is the power of two 2^(-k); the product is
\* rounded down to the value grid
TimesExpNeg(x, k) == IF k >= 0 THEN x \div Pow2(k) ELSE x * Pow2(-k)

\* the compressed distance added on the wrong side of the pivot
BlowOne_Reflected(v, point, k, dir) ==
    IF dir = "D" /\ v < point THEN point + TimesExpNeg(point - v, k)
    ELSE IF dir = "U" /\ v > point THEN point - TimesExpNeg(v - point, k)
    ELSE v

\* the configuration words taken for the direction codes
BlowOne_Words(v, point, k, dir) ==
    IF dir \in {"D", "down"} /\ v < point THEN point - TimesExpNeg(point - v, k)
    ELSE IF dir \in {"U", "up"} /\ v > point THEN point + TimesExpNeg(v - point, k)
    ELSE v

BlowOne(v, point, k, dir) ==
    IF IsNaN(v) \/ v = PosInf THEN v
    ELSE IF dir = "D" /\ v < point THEN point - TimesExpNeg(point - v, k)
    ELSE IF dir = "U" /\ v > point THEN point + TimesExpNeg(v - point, k)
    ELSE v

\* the shift added to the compressed elements only
apply_exponential_blow_ShiftMaskedOnly(values, point, k, dir, shift) ==
    [i \in 1..Len(values) |->
        IF BlowOne(values[i], point, k, dir) = values[i] THEN values[i]
        ELSE Add(BlowOne(values[i], point, k, dir), shift)]

\* build/lib gamma_model.py apply_exponential_blow
apply_exponential_blow(values, point, k, dir, shift) ==
    [i \in 1..Len(values) |-> Add(BlowOne(values[i], point, k, dir), shift)]

----------------------------------------------------------------------------
(* Detrending: years are integers, values are integers on input and exact   *)
(* fractions on output.                                                    *)

FracOf(v) == [num |-> v, den |-> 1]

\* float arithmetic on fractions: NaN (0/0) in, NaN out
FracAdd(a, b) ==
    IF a.den = 0 \/ b.den = 0 THEN NaNFrac
    ELSE Reduce([num |-> a.num * b.den + b.num * a.den, den |-> a.den * b.den])

FracSub(a, b) ==
    IF a.den = 0 \/ b.den = 0 THEN NaNFrac
    ELSE Reduce([num |-> a.num * b.den - b.num * a.den, den |-> a.den * b.den])

FracMul(a, b) ==
    IF a.den = 0 \/ b.den = 0 THEN NaNFrac
    ELSE Reduce([num |-> a.num * b.num, den |-> a.den * b.den])

FracEq(a, b) == a.den # 0 /\ b.den # 0 /\ a.num * b.den = b.num * a.den

SumProd(x, y) == SeqSum([i \in 1..Len(x) |-> x[i] * y[i]])

\* scipy.stats.linregress: slope = ssxym / ssxm, intercept = ymean - slope * xmean,
\* with ssxm and ssxym the (co)variances, here times n^2.  Empty inputs raise;
\* identical x values raise when there are more than one of them and the
\* installed scipy checks for it (checksIdentical), and give 0/0 otherwise
linregress(x, y, checksIdentical) ==
    LET n == Len(x)
        ssxm == n * SumProd(x, x) - SeqSum(x) * SeqSum(x)
        ssxym == n * SumProd(x, y) - SeqSum(x) * SeqSum(y)
    IN IF n = 0 THEN Raised("ValueError")
       ELSE IF checksIdentical /\ n > 1 /\ ssxm = 0 THEN Raised("ValueError")
       ELSE IF ssxm = 0 THEN [slope |-> NaNFrac, intercept |-> NaNFrac]
       ELSE [slope |-> Reduce([num |-> ssxym, den |-> ssxm]),
             intercept |-> Reduce([num |-> SeqSum(y) * ssxm - ssxym * SeqSum(x),
                                   den |-> n * ssxm])]

\* x * slope + intercept at position i
Fitted(x, fit, i) == FracAdd(FracMul(FracOf(x[i]), fit.slope), fit.intercept)

\* anchor + (y - (x * slope + intercept)) with the anchor taken at position a
ResidualsAnchoredAt(x, y, fit, a) ==
    [i \in 1..Len(y) |->
        FracAdd(Fitted(x, fit, a), FracSub(FracOf(y[i]), Fitted(x, fit, i)))]

LinearResiduals(x, y, fit) == ResidualsAnchoredAt(x, y, fit, Len(x))

\* np.array([])
EmptyDetrended == <<>>

\* solar/detrending.py
linear_detrend(x, y, checksIdentical) ==
    IF x = <<>> \/ y = <<>> THEN [detrended |-> EmptyDetrended]
    ELSE LET fit == linregress(x, y, checksIdentical)
         IN IF "raised" \in DOMAIN fit THEN fit
            ELSE [detrended |-> LinearResiduals(x, y, fit)]

\* build/lib/solar/detrending.py: no guard for empty input
linear_detrend_build(x, y, checksIdentical) ==
    LET fit == linregress(x, y, checksIdentical)
    IN IF "raised" \in DOMAIN fit THEN fit
       ELSE [detrended |-> LinearResiduals(x, y, fit)]

SqDist(x, i, j) == (x[i] - x[j]) * (x[i] - x[j])

MaxInt(S) == CHOOSE m \in S : \A k \in S : k <= m

\* sklearn's rbf_kernel(X, X, gamma) = exp(-gamma * |xi - xj|^2), with the
\* bandwidth counted by b = gamma / ln 2 so that the kernel is the power of
\* two 2^(-b d^2); every entry is scaled by the same 2^(b max d^2), which the
\* row normalisation cancels
rbf_kernel(x, b) ==
    LET far == MaxInt({SqDist(x, i, j) : i, j \in 1..Len(x)})
    IN [i \in 1..Len(x) |-> [j \in 1..Len(x) |-> Pow2(b * (far - SqDist(x, i, j)))]]

\* (w / w.sum(axis=1)) @ y
Smooth(w, y) ==
    [i \in 1..Len(y) |->
        Reduce([num |-> SeqSum([j \in 1..Len(y) |-> w[i][j] * y[j]]),
                den |-> SeqSum(w[i])])]

\* anchor + (y - smoothed) with the anchor taken at position a
KernelResidualsAnchoredAt(y, smoothed, a) ==
    [i \in 1..Len(y) |-> FracAdd(smoothed[a], FracSub(FracOf(y[i]), smoothed[i]))]

KernelResiduals(y, smoothed) == KernelResidualsAnchoredAt(y, smoothed, Len(y))

\* solar/detrending.py
gaussian_detrend(x, y, b) ==
    IF Len(x) = 0 \/ Len(y) = 0
    THEN [smoothed |-> EmptyDetrended, detrended |-> EmptyDetrended]
    ELSE LET smoothed == Smooth(rbf_kernel(x, b), y)
         IN [smoothed |-> smoothed, detrended |-> KernelResiduals(y, smoothed)]

\* build/lib/solar/detrending.py: rbf_kernel rejects an array of no samples
gaussian_detrend_build(x, y, b) ==
    IF Len(x) = 0 THEN Raised("ValueError")
    ELSE LET smoothed == Smooth(rbf_kernel(x, b), y)
         IN [smoothed |-> smoothed, detrended |-> KernelResiduals(y, smoothed)]

MaxYears == 3

DetrendYears == {2000, 2001, 2002}

DetrendValues == {90, 105, 120}

\* bandwidths > 0: bw = 1 / sqrt(2 b ln 2)
Bandwidths == {1, 2}

\* equal-length years and values
DetrendInputs ==
    UNION {[x : [1..n -> DetrendYears], y : [1..n -> DetrendValues]] : n \in 0..MaxYears}

InitDetrend ==
    /\ strike = 110 /\ exit = 100 /\ ppa = 5000
    /\ call = NoCall
    /\ DriverIdle

CallLinearDetrend ==
    /\ call = NoCall
    /\ \E in \in DetrendInputs, c \in BOOLEAN :
          call' = [op |-> "linear_detrend", x |-> in.x, y |-> in.y,
                   ret |-> linear_detrend(in.x, in.y, c)]
    /\ UNCHANGED <<strike, exit, ppa, driverVars>>

CallLinearDetrendBuild ==
    /\ call = NoCall
    /\ \E in \in DetrendInputs, c \in BOOLEAN :
          call' = [op |-> "linear_detrend_build", x |-> in.x, y |-> in.y,
                   ret |-> linear_detrend_build(in.x, in.y, c)]
    /\ UNCHANGED <<strike, exit, ppa, driverVars>>

CallGaussianDetrend ==
    /\ call = NoCall
    /\ \E in \in DetrendInputs, b \in Bandwidths :
          call' = [op |-> "gaussian_detrend", x |-> in.x, y |-> in.y, bw |-> b,
                   ret |-> gaussian_detrend(in.x, in.y, b)]
    /\ UNCHANGED <<strike, exit, ppa, driverVars>>

CallGaussianDetrendBuild ==
    /\ call = NoCall
    /\ \E in \in DetrendInputs, b \in Bandwidths :
          call' = [op |-> "gaussian_detrend_build", x |-> in.x, y |-> in.y, bw |-> b,
                   ret |-> gaussian_detrend_build(in.x, in.y, b)]
    /\ UNCHANGED <<strike, exit, ppa, driverVars>>

NextDetrend ==
    \/ CallLinearDetrend
    \/ CallLinearDetrendBuild
    \/ CallGaussianDetrend
    \/ CallGaussianDetrendBuild

SpecDetrend == InitDetrend /\ [][NextDetrend]_vars

----------------------------------------------------------------------------
(* Library calls of gamma_model.py: parameter estimation, nearest-rank      *)
(* percentiles, and the blow applied once and a second time to its output.  *)

\* probabilities are kept in hundredths: POne is 1.0
POne == 100

\* np.ceil(num / den) for den > 0
Ceil(num, den) == -((-num) \div den)

RECURSIVE InsertSorted(_, _)
InsertSorted(v, s) ==
    IF s = <<>> THEN <<v>>
    ELSE IF v <= Head(s) THEN <<v>> \o s
    ELSE <<Head(s)>> \o InsertSorted(v, Tail(s))

\* np.sort(values)
RECURSIVE Sort(_)
Sort(s) == IF s = <<>> THEN <<>> ELSE InsertSorted(Head(s), Sort(Tail(s)))

\* the rank rounded down instead of up
PercentileRank_Floor(p, n) == Minimum(Maximum((p * n) \div POne, 1), n)

\* rank = int(np.ceil(p * n)); rank = min(max(rank, 1), n)
PercentileRank(p, n) == Minimum(Maximum(Ceil(p * n, POne), 1), n)

\* build/lib gamma_model.py; sorted_vals[rank - 1] of an empty array is an
\* IndexError
excel_style_percentiles(values, percentiles) ==
    LET sorted_vals == Sort(values)
        n == Len(sorted_vals)
    IN IF n = 0 /\ percentiles # <<>> THEN Raised("IndexError")
       ELSE [result |-> [i \in 1..Len(percentiles) |->
                            sorted_vals[PercentileRank(percentiles[i], n)]]]

MaxPercentiles == 2

GammaValues == {-10, 0, 90, 120}

PercentileValues == {10, 20, 30}

\* 0 and 1.5 lie outside (0, 1] and are clamped
Percentiles == {0, 1, 25, 50, 67, POne, 150}

\* the sample of the documentation: data 10..50 at p = 0.01, 0.5, 1.0
PercentileInputs ==
    [values : SeqsUpTo(PercentileValues, MaxLen),
     percentiles : SeqsUpTo(Percentiles, MaxPercentiles)]
        \cup {[values |-> <<10, 20, 30, 40, 50>>, percentiles |-> <<1, 50, POne>>]}

BlowPoint == 100

\* distances to the pivot are multiples of 16, so that two halvings or
\* quarterings stay on the value grid
BlowValues == {68, 84, BlowPoint, 116, 132}

BlowFactors == {-2, -1, 0, 1, 2}

BlowDirections == {"D", "U", "down", "up"}

BlowShifts == {0, 5}

InitGammaModel ==
    /\ strike = 110 /\ exit = 100 /\ ppa = 5000
    /\ call = NoCall
    /\ DriverIdle

CallCalculateGammaParameters ==
    /\ call = NoCall
    /\ \E values \in SeqsUpTo(GammaValues, MaxLen) :
          call' = [op |-> "calculate_gamma_parameters", values |-> values,
                   ret |-> calculate_gamma_parameters(values)]
    /\ UNCHANGED <<strike, exit, ppa, driverVars>>

CallExcelStylePercentiles ==
    /\ call = NoCall
    /\ \E in \in PercentileInputs :
          call' = [op |-> "excel_style_percentiles", values |-> in.values,
                   percentiles |-> in.percentiles,
                   ret |-> excel_style_percentiles(in.values, in.percentiles)]
    /\ UNCHANGED <<strike, exit, ppa, driverVars>>

CallApplyExponentialBlow ==
    /\ call = NoCall
    /\ \E values \in SeqsUpTo(BlowValues, MaxLen), k \in BlowFactors,
          d \in BlowDirections, s \in BlowShifts :
          call' = [op |-> "apply_exponential_blow", values |-> values,
                   blow_point |-> BlowPoint, blow_factor |-> k, blow_dir |-> d,
                   shift |-> s,
                   ret |-> apply_exponential_blow(values, BlowPoint, k, d, s)]
    /\ UNCHANGED <<strike, exit, ppa, driverVars>>

\* the blow applied to the output of a previous call, with the same
\* arguments
CallApplyExponentialBlowAgain ==
    /\ call.op = "apply_exponential_blow"
    /\ call.shift = 0
    /\ call' = [op |-> "apply_exponential_blow_again", values |-> call.values,
                blow_point |-> call.blow_point, blow_factor |-> call.blow_factor,
                blow_dir |-> call.blow_dir, shift |-> call.shift,
                once |-> call.ret,
                ret |-> apply_exponential_blow(call.ret, call.blow_point,
                                               call.blow_factor, call.blow_dir,
                                               call.shift)]
    /\ UNCHANGED <<strike, exit, ppa, driverVars>>

NextGammaModel ==
    \/ CallCalculateGammaParameters
    \/ CallExcelStylePercentiles
    \/ CallApplyExponentialBlow
    \/ CallApplyExponentialBlowAgain

SpecGammaModel == InitGammaModel /\ [][NextGammaModel]_vars

----------------------------------------------------------------------------
(* The drivers: run() of solar/main.py ("cli") and of the backup main.py    *)
(* ("backup"), and the dashboard script app.py from its payout step on      *)

MaxSub == 2
MaxSobol == 2

DriverEnergies == {90, 120}

\* the detrended table: detrending anchors the last User_Detrended value to
\* the last Rescaled_Energy_MWh value
Anchored(rs) ==
    rs # <<>> => rs[Len(rs)]["User_Detrended"] = rs[Len(rs)]["Rescaled_Energy_MWh"]

SubTables ==
    {[columns |-> {"Rescaled_Energy_MWh", "User_Detrended"}, rows |-> rs] :
        rs \in {r \in SeqsUpTo([{"Rescaled_Energy_MWh", "User_Detrended"} -> DriverEnergies],
                               MaxSub) : Anchored(r)}}

SobolCells == {-5, 5, QOne, 15}

SobolFiles ==
    {[hasColumn |-> TRUE, cells |-> cs] : cs \in SeqsUpTo(SobolCells, MaxSobol)}
        \cup {[hasColumn |-> FALSE, cells |-> <<>>]}

BlowConfigs(p) ==
    [point : {100}, factor : {-1, 1}, dir : IF p = "dashboard" THEN {"D", "U"} ELSE {"D"},
     shift : {0}]

\* AREA_CELLS * EFFICIENCY_RATIO * PERFORMANCE_FACTOR * CONVERSION_RATIO
\* = 348642 * 0.165 * 0.7969 / 3600000 = 0.012734 kWh per J/m2, kept to
\* three digits
PanelFactor == [num |-> 127, den |-> 10000]

\* CLIENT_P50 = 112 684 MWh, counted like every energy of the drivers in
\* thousands of MWh
CLIENT_P50 == 113

\* df.copy() with the new column SSRD * (panel constants), on the value grid
calculate_hourly_energy(t) ==
    [exists |-> t.exists, hasDate |-> t.hasDate,
     rows |-> [i \in 1..Len(t.rows) |->
                  [Date |-> t.rows[i].Date, SSRD |-> t.rows[i].SSRD,
                   Hourly_Energy_kWh |->
                       (t.rows[i].SSRD * PanelFactor.num) \div PanelFactor.den]]]

MonthOf(date) == date.y * 12 + date.m - 1

MinInt(S) == CHOOSE m \in S : \A k \in S : m <= k

\* df.resample('ME', on='Date')['Hourly_Energy_kWh'].sum(): one row per
\* month from the first to the last dated row, empty months summing to 0;
\* then Monthly_Energy_MWh = kWh / 1000.0
calculate_monthly_energy(t) ==
    LET dated == DropNaT(t.rows)
        months == {MonthOf(dated[i].Date) : i \in 1..Len(dated)}
    IN IF ~t.hasDate THEN Raised("KeyError")
       ELSE IF months = {} THEN [rows |-> <<>>]
       ELSE [rows |->
               [k \in 1..(MaxInt(months) - MinInt(months) + 1) |->
                   LET month == MinInt(months) + k - 1
                       kwh == SumKwh(SelectSeq(dated, LAMBDA r : MonthOf(r.Date) = month))
                   IN [Month |-> month, Hourly_Energy_kWh |-> kwh,
                       Monthly_Energy_MWh |-> [num |-> kwh, den |-> KwhPerMwh]]]]

FracDiv(a, b) ==
    IF a.den = 0 \/ b.den = 0 THEN NaNFrac
    ELSE Reduce([num |-> a.num * b.den, den |-> a.den * b.num])

RECURSIVE FracSum(_)
FracSum(fs) == IF fs = <<>> THEN FracOf(0) ELSE FracAdd(Head(fs), FracSum(Tail(fs)))

\* Series.mean()
FracMean(fs) == IF fs = <<>> THEN NaNFrac ELSE FracDiv(FracSum(fs), FracOf(Len(fs)))

\* a float of the drivers' tables, kept on the integer value grid
ToGrid(f) == IF f.den = 0 THEN NaN ELSE f.num \div f.den

AnnualEnergies(rows) == [i \in 1..Len(rows) |-> rows[i].Energy_MWh_Hourly]

RescaleFactor_ClientTarget(p, rows) ==
    FracDiv(FracOf(CLIENT_P50), FracMean(AnnualEnergies(rows)))

\* solar/main.py: CLIENT_P50 / mean; the backup: rescale_factor / mean with
\* rescale_factor the same mean
RescaleFactor(p, rows) ==
    IF p = "cli" THEN FracDiv(FracOf(CLIENT_P50), FracMean(AnnualEnergies(rows)))
    ELSE FracDiv(FracMean(AnnualEnergies(rows)), FracMean(AnnualEnergies(rows)))

\* yearly['Rescaled_Energy_MWh'] = yearly['Energy_MWh_Hourly'] * factor
Rescaled(p, rows) ==
    [i \in 1..Len(rows) |->
        [Year |-> rows[i].Year, Energy_MWh_Hourly |-> rows[i].Energy_MWh_Hourly,
         Rescaled_Energy_MWh |->
             ToGrid(FracMul(rows[i].Energy_MWh_Hourly, RescaleFactor(p, rows)))]]

\* yearly[(yearly['Year'] >= start) & (yearly['Year'] <= end)]
AnalysisWindow(rows, c) ==
    SelectSeq(rows, LAMBDA r : r.Year >= c.start /\ r.Year <= c.end)

\* the detrending call of run(); a NaN among the values makes every fitted
\* or smoothed value NaN
Detrended(c, x, y) ==
    IF \E i \in 1..Len(y) : IsNaN(y[i]) THEN [detrended |-> [i \in 1..Len(y) |-> NaNFrac]]
    ELSE IF c.method = "kernel" THEN gaussian_detrend(x, y, c.bw)
    ELSE linear_detrend(x, y, TRUE)

SubColumns == {"Year", "Energy_MWh_Hourly", "Rescaled_Energy_MWh", "User_Detrended"}

\* sub['User_Detrended'] = detrended
WithDetrended(rows, detrended) ==
    [columns |-> SubColumns,
     rows |-> [i \in 1..Len(rows) |->
                  [Year |-> rows[i].Year, Energy_MWh_Hourly |-> rows[i].Energy_MWh_Hourly,
                   Rescaled_Energy_MWh |-> rows[i].Rescaled_Energy_MWh,
                   User_Detrended |-> ToGrid(detrended[i])]]]

\* three fiscal years of data, two, a year without radiation, a table whose
\* only date is missing, a file without a 'Date' column, and no file at all
DriverSources ==
    {[exists |-> TRUE, hasDate |-> TRUE,
      rows |-> <<[Date |-> Stamp(2000, 10, 1, 0), SSRD |-> 7200000],
                 [Date |-> Stamp(2001, 10, 1, 0), SSRD |-> 9600000],
                 [Date |-> Stamp(2002, 10, 1, 0), SSRD |-> 7200000]>>],
     [exists |-> TRUE, hasDate |-> TRUE,
      rows |-> <<[Date |-> Stamp(2000, 10, 1, 0), SSRD |-> 7200000],
                 [Date |-> Stamp(2001, 10, 1, 0), SSRD |-> 9600000]>>],
     [exists |-> TRUE, hasDate |-> TRUE,
      rows |-> <<[Date |-> Stamp(2000, 10, 1, 0), SSRD |-> 0]>>],
     [exists |-> TRUE, hasDate |-> TRUE, rows |-> <<[Date |-> NaT, SSRD |-> 7200000]>>],
     [exists |-> TRUE, hasDate |-> FALSE, rows |-> <<>>],
     NoSource}

\* the whole data, a single year, and years without data
DriverConfigs ==
    [method : {"linear", "kernel"}, start : {2000}, end : {2024}, bw : {1}]
        \cup [method : {"linear"}, start : {2001, 2010}, end : {2001}, bw : {1}]

\* a strike at the exit and one above it
DriverStrikes == {100, 110}

Init ==
    /\ strike \in DriverStrikes /\ exit = 100 /\ ppa = 5000
    /\ call = NoCall
    /\ path \in {"cli", "backup", "dashboard"}
    /\ IF path = "dashboard"
       THEN pc = "payouts" /\ sub \in SubTables /\ InputsIdle
       ELSE /\ pc = "hourly" /\ sub = NoTable
            /\ hourly \in DriverSources /\ cfg \in DriverConfigs
            /\ monthly = <<>> /\ yearly = <<>>
    /\ sobol \in SobolFiles
    /\ blowcfg \in BlowConfigs(path)
    /\ limit = NaN /\ gparams = NoParams /\ mapped = <<>> /\ blown = <<>>
    /\ eloss = NoEloss /\ err = "none"
    /\ done = <<>> /\ out = <<>>
    /\ StoreIdle

\* an exception that is swallowed, the run going on with its plots
Fail_Swallowed(e) == pc' = "plots" /\ err' = e

\* an exception leaves run(): nothing after the raising statement runs
Fail(e) == pc' = "failed" /\ err' = e

Started(stage) == done' = Append(done, stage)

\* df = calculate_hourly_energy(read_solar_data(csv)), in the backup
\* calculate_hourly_energy(load_ssrd(lat, lon)): read_solar_data raises
\* ValueError when neither separator parses a 'Date' column, load_ssrd raises
\* FileNotFoundError
RunHourly ==
    /\ pc = "hourly"
    /\ Started("hourly")
    /\ IF path = "cli" /\ (~hourly.exists \/ ~hourly.hasDate)
       THEN Fail("ValueError") /\ UNCHANGED hourly
       ELSE IF ~hourly.exists
       THEN Fail("FileNotFoundError") /\ UNCHANGED hourly
       ELSE hourly' = calculate_hourly_energy(hourly) /\ pc' = "monthly" /\ err' = err
    /\ UNCHANGED <<storeVars, strike, exit, ppa, call, path, sub, limit, sobol, gparams,
                   mapped, blown, eloss, blowcfg, monthly, yearly, cfg, out>>

\* monthly = calculate_monthly_energy(df); with dates that did not parse the
\* column is either of strings, which resample rejects, or holds NaT
RunMonthly ==
    /\ pc = "monthly"
    /\ Started("monthly")
    /\ \E strings \in {FALSE, DropNaT(hourly.rows) # hourly.rows} :
          LET r == calculate_monthly_energy(hourly)
          IN IF strings
             THEN Fail("TypeError") /\ UNCHANGED monthly
             ELSE IF "raised" \in DOMAIN r
             THEN Fail(r.raised) /\ UNCHANGED monthly
             ELSE monthly' = r.rows /\ pc' = "annual" /\ err' = err
    /\ UNCHANGED <<storeVars, strike, exit, ppa, call, path, sub, limit, sobol, gparams,
                   mapped, blown, eloss, blowcfg, hourly, yearly, cfg, out>>

\* yearly = calculate_annual_energy(df)
RunAnnual ==
    /\ pc = "annual"
    /\ Started("annual")
    /\ LET r == calculate_annual_energy(hourly)
       IN IF "raised" \in DOMAIN r
          THEN Fail(r.raised) /\ UNCHANGED yearly
          ELSE yearly' = r.rows /\ pc' = "rescale" /\ err' = err
    /\ UNCHANGED <<storeVars, strike, exit, ppa, call, path, sub, limit, sobol, gparams,
                   mapped, blown, eloss, blowcfg, hourly, monthly, cfg, out>>

\* yearly['Rescaled_Energy_MWh'] = ...
RunRescale ==
    /\ pc = "rescale"
    /\ Started("rescale")
    /\ yearly' = Rescaled(path, yearly)
    /\ pc' = "detrend"
    /\ UNCHANGED <<storeVars, strike, exit, ppa, call, path, sub, limit, sobol, gparams,
                   mapped, blown, eloss, blowcfg, err, hourly, monthly, cfg, out>>

\* sub = yearly[...].copy(); detrended = gaussian_detrend / linear_detrend;
\* sub['User_Detrended'] = detrended
RunDetrend ==
    /\ pc = "detrend"
    /\ Started("detrend")
    /\ LET window == AnalysisWindow(yearly, cfg)
           r == Detrended(cfg, [i \in 1..Len(window) |-> window[i].Year],
                          [i \in 1..Len(window) |-> window[i].Rescaled_Energy_MWh])
       IN IF "raised" \in DOMAIN r
          THEN Fail(r.raised) /\ UNCHANGED sub
          ELSE sub' = WithDetrended(window, r.detrended) /\ pc' = "payouts" /\ err' = err
    /\ UNCHANGED <<storeVars, strike, exit, ppa, call, path, limit, sobol, gparams, mapped, blown,
                   eloss, blowcfg, inputVars, out>>

LimitPassed_Recomputed == strike * ppa

\* the limit handed to the expected-loss step: the variable bound by
\* `sub, limit = calculate_payouts(...)`
LimitPassed == limit

\* sub, limit = calculate_payouts(sub, strike, exit, ppa)
RunPayouts ==
    /\ pc = "payouts" /\ path \in {"cli", "backup"}
    /\ Started("payouts")
    /\ LET r == IF path = "cli" THEN calculate_payouts(sub, strike, exit, ppa)
                ELSE calculate_payouts_backup(sub, strike, exit, ppa)
       IN IF r.ret = KeyError
          THEN Fail("KeyError") /\ UNCHANGED <<sub, limit>>
          ELSE sub' = r.ret.df /\ limit' = r.ret.limit /\ pc' = "gamma" /\ err' = err
    /\ UNCHANGED <<storeVars, strike, exit, ppa, call, path, sobol, gparams, mapped, blown,
                   eloss, blowcfg, inputVars, out>>

\* gamma_params / calculate_gamma_parameters on sub['User_Detrended'].values
RunGammaFit ==
    /\ pc = "gamma"
    /\ Started("gamma")
    /\ LET g == IF path = "cli" THEN gamma_params(Column(sub, "User_Detrended"))
                ELSE calculate_gamma_parameters(Column(sub, "User_Detrended"))
       IN IF "raised" \in DOMAIN g
          THEN Fail(g.raised) /\ UNCHANGED gparams
          ELSE gparams' = g /\ pc' = "sobol" /\ err' = err
    /\ UNCHANGED <<storeVars, strike, exit, ppa, call, path, sub, limit, sobol, mapped,
                   blown, eloss, blowcfg, inputVars, out>>

\* sobol_values = sobol_sim(shape, scale, csv_path)
RunSobolSim ==
    /\ pc = "sobol"
    /\ Started("sobol")
    /\ LET r == sobol_sim(gparams, sobol)
       IN IF "raised" \in DOMAIN r
          THEN Fail(r.raised) /\ UNCHANGED mapped
          ELSE mapped' = r.values /\ pc' = "blow" /\ err' = err
    /\ UNCHANGED <<storeVars, strike, exit, ppa, call, path, sub, limit, sobol, gparams,
                   blown, eloss, blowcfg, inputVars, out>>

\* blown = blow(...) / apply_exponential_blow(..., 'D', 0)
RunBlow ==
    /\ pc = "blow"
    /\ Started("blow")
    /\ blown' = apply_exponential_blow(mapped, blowcfg.point, blowcfg.factor, blowcfg.dir,
                                       blowcfg.shift)
    /\ pc' = "eloss"
    /\ UNCHANGED <<storeVars, strike, exit, ppa, call, path, sub, limit, sobol, gparams,
                   mapped, eloss, blowcfg, err, inputVars, out>>

\* eloss = expected_loss(blown, strike, exit, ppa, limit); print(eloss)
RunExpectedLoss ==
    /\ pc = "eloss"
    /\ Started("eloss")
    /\ eloss' = [limit |-> LimitPassed,
                 ret |-> expected_loss(blown, strike, exit, ppa, LimitPassed).ret,
                 state |-> "value"]
    /\ out' = Append(out, "Expected Loss")
    /\ pc' = "plots"
    /\ UNCHANGED <<storeVars, strike, exit, ppa, call, path, sub, limit, sobol, gparams,
                   mapped, blown, blowcfg, err, inputVars>>

\* the figures of run(), in the order of their calls
Figures ==
    <<"annual_trend", "interactive_annual", "monthly_scatter", "monthly_seasonality",
      "detrended_comparison", "payout_bars", "gamma_distributions", "sobol_simulation">>

\* the exception a plot step ends in, "none" if it draws its figure:
\* plot_detrended_comparison calls linregress, which rejects empty inputs;
\* np.percentile has no element to index in an empty array;
\* plot_sobol_simulation calls plt.hist, whose range (the least and the
\* largest value that is not NaN) must be finite
PlotRaises(figure) ==
    IF figure = "detrended_comparison" /\ sub.rows = <<>> THEN "ValueError"
    ELSE IF figure = "gamma_distributions" /\ sub.rows = <<>> THEN "IndexError"
    ELSE IF figure = "sobol_simulation"
            /\ \/ \E i \in 1..Len(blown) : blown[i] = PosInf
               \/ blown # <<>> /\ \A i \in 1..Len(blown) : IsNaN(blown[i])
    THEN "ValueError"
    ELSE "none"

FiguresOut == SelectSeq(out, LAMBDA o : \E k \in 1..Len(Figures) : Figures[k] = o)

\* one plot call of run(): plt.show() / fig.show(), in the backup
\* save_fig(...); after the last figure the backup prints where they are
RunPlot ==
    /\ pc = "plots"
    /\ done' = IF FiguresOut = <<>> THEN Append(done, "rendering") ELSE done
    /\ LET figure == Figures[Len(FiguresOut) + 1]
           last == Len(FiguresOut) + 1 = Len(Figures)
       IN IF PlotRaises(figure) # "none"
          THEN Fail(PlotRaises(figure)) /\ UNCHANGED out
          ELSE /\ out' = IF last /\ path = "backup"
                         THEN out \o <<figure, "All results saved">>
                         ELSE Append(out, figure)
               /\ pc' = IF last THEN "returned" ELSE "plots"
               /\ err' = err
    /\ UNCHANGED <<storeVars, strike, exit, ppa, call, path, sub, limit, sobol, gparams,
                   mapped, blown, eloss, blowcfg, inputVars>>

\* app.py: subset, limit = solar.calculate_payouts(subset, strike, exit, ppa_rate)
DashPayouts ==
    /\ pc = "payouts" /\ path = "dashboard"
    /\ LET r == calculate_payouts_backup(sub, strike, exit, ppa)
       IN IF r.ret = KeyError
          THEN Fail("KeyError") /\ UNCHANGED <<sub, limit>>
          ELSE sub' = r.ret.df /\ limit' = r.ret.limit /\ pc' = "sobol_step" /\ err' = err
    /\ UNCHANGED <<storeVars, strike, exit, ppa, call, path, sobol, gparams, mapped, blown,
                   eloss, blowcfg, inputVars, done, out>>

Caught(e) == [limit |-> NaN, ret |-> NaNFrac, state |-> "None", caught |-> e]

\* app.py: the try block of the Sobol expected loss; any exception leaves
\* expected_loss = None.  solar.gamma_params is unpacked into two names, so a
\* package whose gamma_params returns (mean, std, shape, scale) raises here.
DashSobolStep ==
    /\ pc = "sobol_step"
    /\ \E tuple \in {2, 4} :
          IF ~sobol.hasColumn
          THEN eloss' = Caught("IndexError") /\ UNCHANGED <<gparams, mapped, blown>>
          ELSE IF tuple = 4
          THEN eloss' = Caught("ValueError: too many values to unpack")
               /\ UNCHANGED <<gparams, mapped, blown>>
          ELSE LET g == calculate_gamma_parameters(Column(sub, "User_Detrended"))
                   gamma_vals == MapPPF(sobol.cells, g)
                   b == apply_exponential_blow(gamma_vals, blowcfg.point, blowcfg.factor,
                                               blowcfg.dir, blowcfg.shift)
               IN /\ gparams' = g
                  /\ mapped' = gamma_vals
                  /\ blown' = b
                  /\ eloss' = [limit |-> LimitPassed,
                               ret |-> inline_expected_loss(b, strike, exit, ppa,
                                                            LimitPassed),
                               state |-> "value"]
    /\ pc' = "display"
    /\ UNCHANGED <<storeVars, strike, exit, ppa, call, path, sub, limit, sobol, blowcfg, err,
                   inputVars, done, out>>

\* the labels of the burn-cost summary tiles, in the order of the loop
DashTileLabels == <<"5-Year", "10-Year", "20-Year", "Total", "Expected Loss">>

\* f"{val:,.0f}": a float (NaN included) is formatted, None has no such
\* format and raises TypeError
TileRaises(val) == IF val.state = "None" THEN "TypeError" ELSE "none"

\* app.py: the title and the five summary tiles; the burn costs are floats,
\* the last tile shows expected_loss
DashTiles ==
    /\ pc = "display"
    /\ IF TileRaises(eloss) # "none"
       THEN /\ Fail(TileRaises(eloss))
            /\ out' = out \o SubSeq(DashTileLabels, 1, Len(DashTileLabels) - 1)
       ELSE /\ out' = out \o DashTileLabels
            /\ pc' = "dash_plots" /\ err' = err
    /\ UNCHANGED <<storeVars, strike, exit, ppa, call, path, sub, limit, sobol, gparams,
                   mapped, blown, eloss, blowcfg, inputVars, done>>

\* app.py: the annual and the monthly figure, then the distribution
\* comparison: generate_distributions reads shape and scale, which are bound
\* only if the try block got past gamma_params, and excel_style_percentiles
\* indexes the sorted values
DashPlots ==
    /\ pc = "dash_plots"
    /\ LET shown == out \o <<"interactive_annual", "monthly_seasonality">>
           empirical == excel_style_percentiles(Column(sub, "User_Detrended"), <<1, 50, 99>>)
       IN IF gparams.state = "unbound"
          THEN Fail("NameError") /\ out' = shown
          ELSE IF "raised" \in DOMAIN empirical
          THEN Fail(empirical.raised) /\ out' = shown
          ELSE /\ out' = Append(shown, "gamma_distributions")
               /\ pc' = "returned" /\ err' = err
    /\ UNCHANGED <<storeVars, strike, exit, ppa, call, path, sub, limit, sobol, gparams,
                   mapped, blown, eloss, blowcfg, inputVars, done>>

Next ==
    \/ RunHourly
    \/ RunMonthly
    \/ RunAnnual
    \/ RunRescale
    \/ RunDetrend
    \/ RunPayouts
    \/ RunGammaFit
    \/ RunSobolSim
    \/ RunBlow
    \/ RunExpectedLoss
    \/ RunPlot
    \/ DashPayouts
    \/ DashSobolStep
    \/ DashTiles
    \/ DashPlots

Spec == Init /\ [][Next]_vars

----------------------------------------------------------------------------
(* The Zarr adapter: solar/io/ssrd_zarr_adapter.py.  A store instance is    *)
(* its position in `opened` (its identity) and its zarr_path; the series    *)
(* cache is shared by all instances and kept oldest entry first.            *)

MaxOpens == 3

\* lru_cache(maxsize=4096), scaled down
maxsize == 2

ZarrPaths == {"a.zarr", "b.zarr"}

MissingPath == "missing.zarr"

\* self.lats, self.lons: the grid of both datasets
Lats == <<10, 20>>
Lons == <<70>>

Units == {"Jm2", "kWhm2"}

\* hours of the two samples of every series
Times == <<0, 1>>

\* tz_localize("UTC").tz_convert("Asia/Kolkata").tz_localize(None), in
\* half hours
KolkataShift == 11

\* position of the first smallest element: ndarray.argmin()
ArgMin(s) == CHOOSE i \in 1..Len(s) : \A j \in 1..Len(s) : s[i] < s[j] \/ (s[i] = s[j] /\ i <= j)

\* SSRDStore._nearest_index
nearest_index(lat, lon) ==
    [ilat |-> ArgMin([i \in 1..Len(Lats) |-> Abs(Lats[i] - lat)]),
     ilon |-> ArgMin([i \in 1..Len(Lons) |-> Abs(Lons[i] - lon)])]

\* self.ds[self.var].isel(latitude=ilat, longitude=ilon), in J/m2: every
\* dataset and cell holds its own values
Dataset(zarr_path, ilat, ilon) ==
    LET c == (IF zarr_path = "a.zarr" THEN 0 ELSE 4) + 2 * ilat + ilon
    IN <<3600000 * c, 7200000 * c>>

\* the body of _series_at_index: the unit conversion and (t, v)
ReadSeries(zarr_path, ilat, ilon, unit) ==
    LET da == Dataset(zarr_path, ilat, ilon)
        per == IF unit = "Wm2" THEN 3600 ELSE IF unit = "kWhm2" THEN 3600000 ELSE 1
    IN [t |-> Times, v |-> [i \in 1..Len(da) |-> da[i] \div per]]

CacheKey_NoStore(store, ilat, ilon, unit) ==
    [self |-> 0, ilat |-> ilat, ilon |-> ilon, unit |-> unit]

\* the key lru_cache builds from the arguments; self hashes by identity
CacheKey(store, ilat, ilon, unit) ==
    [self |-> store.id, ilat |-> ilat, ilon |-> ilon, unit |-> unit]

Cached(cache, key) == \E i \in 1..Len(cache) : cache[i].key = key

\* lru_cache around _series_at_index: a hit returns the cached result and
\* makes its entry the newest; a miss runs the body, stores the result as the
\* newest entry and drops the oldest entry of a full cache
series_at_index(cache, store, ilat, ilon, unit) ==
    LET key == CacheKey(store, ilat, ilon, unit)
    IN IF Cached(cache, key)
       THEN LET e == cache[CHOOSE i \in 1..Len(cache) : cache[i].key = key]
            IN [ret |-> e.value, hit |-> TRUE, evicted |-> FALSE,
                cache |-> Append(SelectSeq(cache, LAMBDA x : x.key # key), e)]
       ELSE LET e == [key |-> key,
                      value |-> ReadSeries(store.zarr_path, ilat, ilon, unit)]
                full == Len(cache) >= maxsize
            IN [ret |-> e.value, hit |-> FALSE, evicted |-> full,
                cache |-> Append(IF full THEN Tail(cache) ELSE cache, e)]

\* the part of get_dataframe after the cached read: the optional clip, the
\* time-zone shift, and the table with its meta
DataFrameOf(series, idx, unit, start) ==
    LET keep == {i \in 1..Len(series.t) : start = None \/ series.t[i] >= start.hour}
        first == IF keep = {} THEN 1 ELSE MinInt(keep)
        rows == [k \in 1..Cardinality(keep) |->
                    [Date |-> 2 * series.t[first + k - 1] + KolkataShift,
                     SSRD |-> series.v[first + k - 1]]]
    IN [df |-> rows,
        meta |-> [lat |-> Lats[idx.ilat], lon |-> Lons[idx.ilon], unit |-> unit,
                  rows |-> Len(rows)]]

NeedsOpen_OnlyWhenNone(store, zarr_path) == store = None

\* _GLOBAL_STORE is None or str(_GLOBAL_STORE.zarr_path) != str(zarr_path)
NeedsOpen(store, zarr_path) == store = None \/ store.zarr_path # zarr_path

InitStore ==
    /\ strike = 110 /\ exit = 100 /\ ppa = 5000
    /\ call = NoCall
    /\ DriverIdle

\* load_ssrd_from_zarr(zarr_path, lat, lon, unit, start=start): xr.open_zarr
\* raises for a path that holds no store, before _GLOBAL_STORE is assigned
CallLoadSsrdFromZarr ==
    /\ \E zarr_path \in ZarrPaths \cup {MissingPath}, lat \in {12, 18}, lon \in {72},
          unit \in Units, start \in {None, [hour |-> 1]} :
          LET open == NeedsOpen(GLOBAL_STORE, zarr_path)
              idx == nearest_index(lat, lon)
              args == [zarr_path |-> zarr_path, lat |-> lat, lon |-> lon, unit |-> unit,
                       start |-> start]
          IN /\ open => Len(opened) < MaxOpens
             /\ IF open /\ zarr_path = MissingPath
                THEN /\ call' = [op |-> "load_ssrd_from_zarr", args |-> args,
                                 opens |-> open, series |-> None, hit |-> FALSE,
                                 evicted |-> FALSE, ret |-> Raised("FileNotFoundError")]
                     /\ UNCHANGED storeVars
                ELSE LET store == IF open
                                  THEN [id |-> Len(opened) + 1, zarr_path |-> zarr_path]
                                  ELSE GLOBAL_STORE
                         r == series_at_index(series_cache, store, idx.ilat, idx.ilon, unit)
                     IN /\ GLOBAL_STORE' = store
                        /\ opened' = IF open THEN Append(opened, zarr_path) ELSE opened
                        /\ series_cache' = r.cache
                        /\ call' = [op |-> "load_ssrd_from_zarr", args |-> args,
                                    opens |-> open, series |-> r.ret, hit |-> r.hit,
                                    evicted |-> r.evicted,
                                    ret |-> DataFrameOf(r.ret, idx, unit, start)]
    /\ UNCHANGED <<strike, exit, ppa, pc, path, sub, limit, sobol, gparams, mapped, blown,
                   eloss, blowcfg, err, inputVars, done, out>>

NextStore == CallLoadSsrdFromZarr

SpecStore == InitStore /\ [][NextStore]_vars

----------------------------------------------------------------------------
(* Claims about the payout engine, checked under SpecPayouts *)

IsExpectedLossCall == call.op = "expected_loss"

IsPayoutsReturn ==
    /\ call.op \in {"calculate_payouts", "calculate_payouts_backup"}
    /\ call.ret # KeyError

\* the per-value payout as the specification words it, by cases
SpecClipped(v, s, e) ==
    LET d == s - v
        floored == IF d < 0 THEN 0 ELSE d
    IN IF floored > s - e THEN s - e ELSE floored

SpecSamplePayout(v, s, e, p, lim) ==
    IF SpecClipped(v, s, e) * p < lim THEN SpecClipped(v, s, e) * p ELSE lim

RECURSIVE SpecSampleTotal(_, _, _, _, _)
SpecSampleTotal(vs, s, e, p, lim) ==
    IF vs = <<>> THEN 0
    ELSE SpecSamplePayout(Head(vs), s, e, p, lim) + SpecSampleTotal(Tail(vs), s, e, p, lim)

\* C1: expected_loss returns the arithmetic mean, over the simulated values v,
\* of min(clip(strike - v, 0, strike - exit) * ppa, limit); the mean of no
\* values is 0/0 (NaN).  [90,105,130] with strike 110, exit 100, ppa 5000,
\* limit 50000 gives 25000.
C1_ExpectedLossIsMeanOfCappedPayouts ==
    IsExpectedLossCall =>
        /\ call.ret.den = Len(call.values)
        /\ call.ret.num * Len(call.values)
             = SpecSampleTotal(call.values, strike, exit, ppa, call.limit) * call.ret.den
        /\ (/\ call.values = <<90, 105, 130>> /\ strike = 110 /\ exit = 100
            /\ ppa = 5000 /\ call.limit = 50000)
              => /\ call.capped = <<50000, 25000, 0>>
                 /\ call.ret.num = 25000 * call.ret.den

C1_Witness ==
    /\ IsExpectedLossCall
    /\ call.values = <<90, 105, 130>> /\ strike = 110 /\ exit = 100
    /\ ppa = 5000 /\ call.limit = 50000
    /\ call.ret = [num |-> 75000, den |-> 3]

SpecRowPayout(v, s, e, p) ==
    LET lim == (s - e) * p
        shortfall == IF s - v > 0 THEN s - v ELSE 0
    IN IF shortfall * p < lim THEN shortfall * p ELSE lim

\* C2: calculate_payouts returns limit = (strike - exit) * ppa and, for every
\* row, Payout_Untrended = min(limit, max(0, strike - Rescaled_Energy_MWh) * ppa)
\* and Payout_Detrended = min(limit, max(0, strike - User_Detrended) * ppa);
\* strike 110, exit 100, ppa 5000 on [105,120] gives limit 50000 and [25000, 0].
C2_PayoutColumnsFollowFormula ==
    IsPayoutsReturn =>
        /\ call.ret.limit = (strike - exit) * ppa
        /\ Len(call.ret.df.rows) = Len(call.df.rows)
        /\ \A i \in 1..Len(call.ret.df.rows) :
              LET row == call.ret.df.rows[i]
              IN /\ row["Payout_Untrended"]
                      = SpecRowPayout(row["Rescaled_Energy_MWh"], strike, exit, ppa)
                 /\ row["Payout_Detrended"]
                      = SpecRowPayout(row["User_Detrended"], strike, exit, ppa)
                 /\ row["Rescaled_Energy_MWh"] = call.df.rows[i]["Rescaled_Energy_MWh"]
                 /\ "User_Detrended" \in call.df.columns
                      => row["User_Detrended"] = call.df.rows[i]["User_Detrended"]
        /\ (/\ strike = 110 /\ exit = 100 /\ ppa = 5000
            /\ Column(call.df, "Rescaled_Energy_MWh") = <<105, 120>>)
              => /\ call.ret.limit = 50000
                 /\ Column(call.ret.df, "Payout_Untrended") = <<25000, 0>>

C2_Witness ==
    /\ IsPayoutsReturn
    /\ strike = 110 /\ exit = 100 /\ ppa = 5000
    /\ "User_Detrended" \in call.df.columns
    /\ Column(call.df, "Rescaled_Energy_MWh") = <<105, 120>>
    /\ Column(call.df, "User_Detrended") = <<120, 105>>
    /\ Column(call.ret.df, "Payout_Detrended") = <<0, 25000>>
    /\ call.ret.limit = 50000

LimitIsDerived == call.limit = (strike - exit) * ppa

\* C5 as stated: for all strike, exit, ppa and values, with
\* limit = (strike - exit) * ppa the limit cap never changes a per-sample payout.
C5_Original_CapNeverChangesPayout ==
    (IsExpectedLossCall /\ LimitIsDerived) => call.capped = call.payout

\* C5 amended: for ppa >= 0 (any strike, exit and values), with
\* limit = (strike - exit) * ppa the limit cap never changes a per-sample payout.
C5_CapNeverChangesPayoutForNonNegativePpa ==
    (IsExpectedLossCall /\ LimitIsDerived /\ ppa >= 0) => call.capped = call.payout

C5_Witness ==
    /\ IsExpectedLossCall /\ LimitIsDerived
    /\ ppa = 5000 /\ strike = 110 /\ exit = 100
    /\ call.values = <<90, 105, 130>>
    /\ call.capped = <<50000, 25000, 0>>

----------------------------------------------------------------------------
(* Claims about the annual aggregation, checked under SpecAnnual *)

IsAnnualReturn ==
    /\ call.op \in {"calculate_annual_energy", "calculate_annual_energy_build"}
    /\ "rows" \in DOMAIN call.ret

\* the input rows that carry a date
DatedInput == DropNaT(call.df.rows)

InputYears == {DatedInput[i].Date.y : i \in 1..Len(DatedInput)}

\* the range each version documents as retained
Retained(y) ==
    IF call.op = "calculate_annual_energy" THEN y <= YearMax
    ELSE y >= YearMin /\ y <= YearMax

\* the fiscal window as specified: Sep 1 of y plus 365 days, one more day
\* when a February 29 lies inside it
SpecLeapDayInside(y) ==
    \E yy \in {y, y + 1} :
        /\ DateExists(yy, 2, 29)
        /\ WindowStart(y) <= Timestamp(yy, 2, 29, 0)
        /\ Timestamp(yy, 2, 29, 0) <= WindowStart(y) + Days(WindowDays)

SpecWindowEnd(y) ==
    WindowStart(y) + Days(WindowDays) + (IF SpecLeapDayInside(y) THEN Days(1) ELSE 0)

SpecWindowKwh(y) ==
    SumKwh(SelectSeq(DatedInput,
        LAMBDA r : At(r.Date) >= WindowStart(y) /\ At(r.Date) <= SpecWindowEnd(y)))

OutputRowsOf(y) == {i \in 1..Len(call.ret.rows) : call.ret.rows[i].Year = y}

\* C6: every retained calendar year y among the input timestamps gets exactly
\* one output row, whose Energy_MWh_Hourly is the sum of Hourly_Energy_kWh over
\* exactly the input rows in the inclusive fiscal window starting Sep 1 of y
\* (365 days, 366 when a Feb 29 lies inside), divided by 1000.
C6_OneRowPerYearWithWindowSum ==
    IsAnnualReturn =>
        \A y \in InputYears :
            Retained(y) =>
                /\ Cardinality(OutputRowsOf(y)) = 1
                /\ \A i \in OutputRowsOf(y) :
                      LET e == call.ret.rows[i].Energy_MWh_Hourly
                      IN e.den # 0 /\ e.num * KwhPerMwh = SpecWindowKwh(y) * e.den

\* C7: the window of every candidate year starts Sep 1 and is extended by one
\* day exactly when a February 29 falls inside [Sep 1 y, Sep 1 y + 365 days]:
\* 366 days with a Feb 29 inside, 365 days without.
C7_WindowExtendedExactlyOnLeapDay ==
    IsAnnualReturn =>
        \A i \in 1..Len(call.ret.rows) :
            LET y == call.ret.rows[i].Year
            IN WindowEnd(y) - WindowStart(y)
                 = (IF SpecLeapDayInside(y) THEN Days(WindowDays + 1) ELSE Days(WindowDays))

\* C8: the windows of two distinct output years do not overlap: no input row
\* is summed into the aggregate of more than one year.
C8_NoRowCountedTwice ==
    IsAnnualReturn =>
        \A k \in 1..Len(DatedInput) :
            Cardinality({i \in 1..Len(call.ret.rows) :
                            InWindow(DatedInput[k], call.ret.rows[i].Year)}) <= 1

\* C9: every row returned by calculate_annual_energy has 1980 <= Year <= 2024.
C9_YearsWithinRange ==
    IsAnnualReturn =>
        \A i \in 1..Len(call.ret.rows) :
            call.ret.rows[i].Year >= YearMin /\ call.ret.rows[i].Year <= YearMax

\* C10: a year whose fiscal window contains no input row is dropped, not
\* zero-filled: every output row has an input row inside its window.
C10_NoZeroFilledYear ==
    IsAnnualReturn =>
        \A i \in 1..Len(call.ret.rows) :
            \E k \in 1..Len(DatedInput) : InWindow(DatedInput[k], call.ret.rows[i].Year)

IsAnnualCall ==
    call.op \in {"calculate_annual_energy", "calculate_annual_energy_build"}

\* the table has no 'Date' column, or none of its rows carries a valid date
NoUsableDate == (~call.df.hasDate) \/ DatedInput = <<>>

\* C11: called on a table without a 'Date' column, or on one in which no row
\* has a valid date, the annual aggregation raises and returns no table
\* (neither an empty nor a partial one); the version of solar/ raises the
\* input error ValueError in both cases.
C11_NoDateOrNoValidRowRaises ==
    (IsAnnualCall /\ NoUsableDate) =>
        /\ "raised" \in DOMAIN call.ret
        /\ "rows" \notin DOMAIN call.ret
        /\ (call.op = "calculate_annual_energy" => call.ret = Raised("ValueError"))

\* every row of a table with a 'Date' column failed to parse, and the call raised
C11_Witness ==
    /\ call.op = "calculate_annual_energy"
    /\ call.df.hasDate
    /\ Len(call.df.rows) >= 2
    /\ DatedInput = <<>>
    /\ call.ret = Raised("ValueError")

----------------------------------------------------------------------------
(* Claims about detrending, checked under SpecDetrend *)

IsDetrendCall ==
    call.op \in {"linear_detrend", "linear_detrend_build",
                 "gaussian_detrend", "gaussian_detrend_build"}

IsLinearCall == call.op \in {"linear_detrend", "linear_detrend_build"}

\* C12: for both strategies and every non-empty pair of equal-length years
\* and values, the call returns a detrended series whose last element equals
\* the last input value.
C12_LastDetrendedEqualsLastValue ==
    (IsDetrendCall /\ Len(call.x) > 0) =>
        /\ "detrended" \in DOMAIN call.ret
        /\ Len(call.ret.detrended) > 0
        /\ FracEq(call.ret.detrended[Len(call.ret.detrended)],
                  FracOf(call.y[Len(call.y)]))

\* the anchoring where a regression line exists: the kernel strategy on any
\* non-empty input, the linear one on years that are not all the same
C12_AnchoredWhereFitExists ==
    (IsDetrendCall /\ Len(call.x) > 0
        /\ (IsLinearCall => \E i, j \in 1..Len(call.x) : call.x[i] # call.x[j])) =>
        /\ "detrended" \in DOMAIN call.ret
        /\ FracEq(call.ret.detrended[Len(call.ret.detrended)],
                  FracOf(call.y[Len(call.y)]))

\* C13: for every input length n >= 0 both strategies return an output of
\* the length of their input; the empty input returns the empty output and
\* does not raise.
C13_OutputLengthEqualsInputLength ==
    IsDetrendCall =>
        /\ "detrended" \in DOMAIN call.ret
        /\ Len(call.ret.detrended) = Len(call.x)

\* whenever a detrending call returns, its output has the input's length
C13_LengthPreservedWhenReturned ==
    (IsDetrendCall /\ "detrended" \in DOMAIN call.ret) =>
        Len(call.ret.detrended) = Len(call.x)

\* the versions of solar/detrending.py on the empty input
C13_EmptyInEmptyOutInSolar ==
    (call.op \in {"linear_detrend", "gaussian_detrend"} /\ call.x = <<>>) =>
        call.ret.detrended = <<>>

----------------------------------------------------------------------------
(* Claims about gamma_model.py, checked under SpecGammaModel *)

IsGammaCall == call.op = "calculate_gamma_parameters"

One == [num |-> 1, den |-> 1]

\* C14: on a series of two or more values whose standard deviation or mean
\* is <= 0 (a constant series for one), the estimator returns the sentinel
\* shape = 1, scale = 1.
C14_DegenerateSeriesGivesSentinel ==
    (IsGammaCall /\ Len(call.values) >= 2
        /\ (ScaledVariance(call.values) <= 0 \/ SeqSum(call.values) <= 0)) =>
        /\ call.ret.shape = One
        /\ call.ret.scale = One

\* C15: on a series of fewer than two values the estimator ends in an
\* error and returns no shape and scale.
C15_FewerThanTwoValuesRaises ==
    (IsGammaCall /\ Len(call.values) < 2) =>
        /\ "raised" \in DOMAIN call.ret
        /\ "shape" \notin DOMAIN call.ret

IsPercentilesReturn ==
    call.op = "excel_style_percentiles" /\ "result" \in DOMAIN call.ret

\* ceil(p * n) as the least rank k in 1..n with k >= p * n; exists for every
\* p in (0, 1]
SpecRank(p, n) ==
    CHOOSE k \in 1..n : k * POne >= p * n /\ (k - 1) * POne < p * n

\* v is the k-th smallest element of s (duplicates counted)
IsKthSmallest(v, k, s) ==
    /\ \E j \in 1..Len(s) : s[j] = v
    /\ Cardinality({j \in 1..Len(s) : s[j] < v}) < k
    /\ k <= Cardinality({j \in 1..Len(s) : s[j] <= v})

\* C16: for every non-empty values sequence of length n and every p in
\* (0, 1], the returned element for p is the one at 1-indexed rank ceil(p n)
\* of the ascending sort of values, with no interpolation.
C16_NearestRankPercentile ==
    (IsPercentilesReturn /\ call.values # <<>>) =>
        /\ Len(call.ret.result) = Len(call.percentiles)
        /\ \A i \in 1..Len(call.percentiles) :
              (call.percentiles[i] > 0 /\ call.percentiles[i] <= POne) =>
                  IsKthSmallest(call.ret.result[i],
                                SpecRank(call.percentiles[i], Len(call.values)),
                                call.values)

\* the documented sample: [10, 20, 30, 40, 50] at p = 0.01, 0.5, 1.0
C16_Witness ==
    /\ call.op = "excel_style_percentiles"
    /\ call.values = <<10, 20, 30, 40, 50>>
    /\ call.percentiles = <<1, 50, POne>>
    /\ call.ret = [result |-> <<10, 30, 50>>]

\* an unsorted input with a rank that is rounded up: p = 0.5 of 3 values
C16_WitnessRoundedUp ==
    /\ call.op = "excel_style_percentiles"
    /\ call.values = <<30, 10, 20>>
    /\ call.percentiles = <<50>>
    /\ call.ret = [result |-> <<20>>]

IsBlowCall == call.op = "apply_exponential_blow"

\* d1 = d0 * exp(-factor / 100), the multiplier being 2^(-k)
ScaledBy(d1, d0, k) ==
    IF k >= 0 THEN d1 * Pow2(k) = d0 ELSE d1 = d0 * Pow2(-k)

\* C17: with direction 'D' every value < pivot becomes
\* pivot - (pivot - value) * exp(-factor/100) and values >= pivot are kept;
\* with direction 'U' every value > pivot becomes
\* pivot + (value - pivot) * exp(-factor/100) and values <= pivot are kept;
\* shift is then added to every element, the kept ones included.
C17_BlowCompressesOneSideThenShifts ==
    (IsBlowCall /\ call.blow_dir \in {"D", "U"}) =>
        /\ Len(call.ret) = Len(call.values)
        /\ \A i \in 1..Len(call.values) :
              LET v == call.values[i]
                  p == call.blow_point
                  o == call.ret[i] - call.shift
              IN IF call.blow_dir = "D"
                 THEN IF v < p THEN ScaledBy(p - o, p - v, call.blow_factor) ELSE o = v
                 ELSE IF v > p THEN ScaledBy(o - p, v - p, call.blow_factor) ELSE o = v

\* a call with a shift on values below, at and above the pivot
C17_Witness ==
    /\ IsBlowCall
    /\ call.blow_dir = "D" /\ call.blow_factor = 1 /\ call.shift = 5
    /\ call.values = <<84, 100, 116>>
    /\ call.ret = <<97, 105, 121>>

\* C18: for fixed pivot, factor, direction and shift the blow is monotonic:
\* a <= b implies blow(a) <= blow(b), for both directions and for positive,
\* zero and negative factors.
C18_BlowIsMonotonic ==
    (IsBlowCall /\ call.blow_dir \in {"D", "U"}) =>
        \A i, j \in 1..Len(call.values) :
            call.values[i] <= call.values[j] => call.ret[i] <= call.ret[j]

\* a negative factor pushing a value below the pivot further down, in the
\* same call as a value above the pivot
C18_Witness ==
    /\ IsBlowCall
    /\ call.blow_dir = "D" /\ call.blow_factor = -1
    /\ call.values = <<116, 84>>
    /\ call.ret[2] < 84 /\ call.ret[1] >= 116

IsBlowAgain == call.op = "apply_exponential_blow_again"

Affected(v) ==
    \/ call.blow_dir = "D" /\ v < call.blow_point
    \/ call.blow_dir = "U" /\ v > call.blow_point

\* C19: with shift = 0, a second application with the same pivot, factor
\* and direction multiplies the distance to the pivot by exp(-factor/100)
\* once more, equals one application with twice the factor, and differs
\* from the first application for every value on the affected side whenever
\* the factor is not 0.
C19_BlowIsNotIdempotent ==
    (IsBlowAgain /\ call.shift = 0 /\ call.blow_dir \in {"D", "U"}) =>
        /\ call.ret = apply_exponential_blow(call.values, call.blow_point,
                                             2 * call.blow_factor, call.blow_dir, 0)
        /\ \A i \in 1..Len(call.values) :
              Affected(call.values[i]) =>
                  /\ ScaledBy(Abs(call.blow_point - call.ret[i]),
                              Abs(call.blow_point - call.once[i]), call.blow_factor)
                  /\ (call.blow_factor # 0 => call.ret[i] # call.once[i])

\* 84 -> 92 -> 96 with the pivot at 100: the distance 16 halved twice
C19_Witness ==
    /\ IsBlowAgain
    /\ call.blow_dir = "D" /\ call.blow_factor = 1 /\ call.shift = 0
    /\ call.values = <<84>>
    /\ call.once = <<92>>
    /\ call.ret = <<96>>

----------------------------------------------------------------------------
(* Claims about the drivers, checked under Spec *)

SobolOutOfRange ==
    \E i \in 1..Len(sobol.cells) : sobol.cells[i] < 0 \/ sobol.cells[i] > QOne

IsRun == path \in {"cli", "backup"}

\* the stages of run() in the order of its statements
StageOrder ==
    <<"hourly", "monthly", "annual", "rescale", "detrend", "payouts", "gamma", "sobol",
      "blow", "eloss", "rendering">>

IsPrefix(s, t) == Len(s) <= Len(t) /\ \A i \in 1..Len(s) : s[i] = t[i]

RanOnceInOrder == IsPrefix(done, StageOrder)

Raised_ == err # "none"

RaisedInRendering == Raised_ /\ done # <<>> /\ done[Len(done)] = "rendering"

\* C20 as stated: the stages run at most once each in the fixed order, and
\* a run in which any stage raised has emitted no expected-loss value and no
\* figure.
C20_Original_NothingEmittedWhenAnyStageRaises ==
    IsRun =>
        /\ RanOnceInOrder
        /\ Raised_ => out = <<>>

\* C20: run() is a single pass without retries: its stages start at most
\* once each, in the order hourly energy, monthly, annual, rescale, detrend,
\* payouts, gamma fit, quasi-random mapping, blow, expected loss, rendering;
\* once a stage has raised no further stage or plot call runs and nothing
\* more is emitted; a run that raised before rendering has emitted no
\* expected-loss value and no figure, while a run that raised in rendering
\* has already printed the expected loss.
C20_SinglePassFailFast ==
    [][IsRun =>
          /\ RanOnceInOrder'
          /\ Raised_ => UNCHANGED <<pc, done, out>>
          /\ (Raised_' /\ ~RaisedInRendering') => out' = <<>>
          /\ RaisedInRendering' => (out' # <<>> /\ out'[1] = "Expected Loss")]_vars

\* plt.hist rejected the infinite value mapped from the quasi-random number
\* 1.0: the run raised in its last plot call, after the expected loss was
\* printed and seven figures were shown
C20_Witness ==
    /\ path = "cli"
    /\ pc = "failed" /\ err = "ValueError"
    /\ done = StageOrder
    /\ Len(out) = 8 /\ out[1] = "Expected Loss"
    /\ eloss.state = "value"

\* the annual aggregation raised on a table without a valid date: nothing
\* after it ran
C20_WitnessAnnualRaised ==
    /\ IsRun
    /\ pc = "failed" /\ err = "ValueError"
    /\ done = <<"hourly", "monthly", "annual">>
    /\ out = <<>> /\ sub = NoTable /\ eloss = NoEloss

\* C3: whenever the quasi-random input holds a value outside [0,1], the
\* simulation step fails with an input-validation error before any value is
\* mapped through the inverse gamma CDF, and no simulated sequence or expected
\* loss is produced, on the CLI path and in the dashboard alike.
C3_OutOfRangeSobolIsRejected ==
    SobolOutOfRange =>
        /\ mapped = <<>> /\ blown = <<>> /\ eloss.state # "value"
        /\ pc \notin {"blow", "eloss", "plots"}
        /\ pc = "display" => (eloss.state = "None" /\ eloss.caught = "ValueError")

\* the positions after `sub, limit = calculate_payouts(...)` has returned
LimitBound ==
    pc \in {"gamma", "sobol", "blow", "eloss", "plots", "returned", "sobol_step", "display",
            "dash_plots"}

\* C4: in every run the limit passed to the expected-loss calculation is the
\* value calculate_payouts returned, (strike - exit) * ppa; it is not
\* recomputed or replaced between the payout step and the expected-loss step.
C4_LimitReusedForExpectedLoss ==
    /\ LimitBound => limit = (strike - exit) * ppa
    /\ eloss.state = "value" => eloss.limit = limit

C4_Witness ==
    /\ eloss.state = "value" /\ eloss.limit = 50000 /\ limit = 50000
    /\ strike = 110 /\ exit = 100
    /\ Len(blown) = 2 /\ blown[1] < 110 /\ ~IsNaN(blown[1])
    /\ path = "backup"

----------------------------------------------------------------------------
(* Claims about purity, checked under SpecPayouts *)

IsPayoutsCall == call.op \in {"calculate_payouts", "calculate_payouts_backup"}

\* C21: every core operation is a pure transformation; for calculate_payouts
\* (both versions): after the call the table that was passed in has the
\* columns and rows it had before the call.
C21_ArgumentTableUnchanged ==
    IsPayoutsCall => call.df_after = call.df

\* the version of solar/payouts.py works on a copy
C21_CopyingVersionLeavesArgument ==
    call.op = "calculate_payouts" => call.df_after = call.df

----------------------------------------------------------------------------
(* Claims about the rescale step, checked under Spec *)

IsRescaledBackup ==
    /\ path = "backup"
    /\ pc \notin {"hourly", "monthly", "annual", "rescale"}
    /\ "rescale" \in {done[i] : i \in 1..Len(done)}

\* the rows of run()'s tables that carry both energy columns
RescaledRows == {yearly[i] : i \in 1..Len(yearly)} \cup {sub.rows[i] : i \in 1..Len(sub.rows)}

MeanIsUsable ==
    LET m == FracMean(AnnualEnergies(yearly)) IN m.den # 0 /\ m.num # 0

\* C22: the rescale step of the backup run() is a no-op: in yearly and in the
\* analysis window, Rescaled_Energy_MWh equals Energy_MWh_Hourly in every row.
C22_Original_RescaleIsNoOp ==
    IsRescaledBackup =>
        \A r \in RescaledRows : r.Rescaled_Energy_MWh = ToGrid(r.Energy_MWh_Hourly)

\* C22 as amended: the rescale step of the backup run() is a no-op whenever
\* the mean of Energy_MWh_Hourly is a non-zero number; when that mean is 0
\* the factor is 0/0 and every Rescaled_Energy_MWh is NaN.  CLIENT_P50 plays
\* no part in either case.
C22_RescaleIsNoOpUnlessMeanIsZero ==
    IsRescaledBackup =>
        \A r \in RescaledRows :
            r.Rescaled_Energy_MWh
                = IF MeanIsUsable THEN ToGrid(r.Energy_MWh_Hourly) ELSE NaN

C22_Witness ==
    /\ IsRescaledBackup
    /\ pc = "returned"
    /\ MeanIsUsable
    /\ Len(yearly) = 3 /\ Len(sub.rows) = 3
    /\ \A i \in 1..3 : yearly[i].Rescaled_Energy_MWh = ToGrid(yearly[i].Energy_MWh_Hourly)
    /\ yearly[1].Rescaled_Energy_MWh # yearly[2].Rescaled_Energy_MWh
    /\ FracMean(AnnualEnergies(yearly)) # FracOf(CLIENT_P50)

C22_WitnessZeroMean ==
    /\ IsRescaledBackup
    /\ ~MeanIsUsable
    /\ Len(yearly) = 1 /\ IsNaN(yearly[1].Rescaled_Energy_MWh)

----------------------------------------------------------------------------
(* Claims about the Zarr adapter, checked under SpecStore *)

IsLoadCall == call.op = "load_ssrd_from_zarr"

IsLoadReturn == IsLoadCall /\ "raised" \notin DOMAIN call.ret

\* C23: after any sequence of load_ssrd_from_zarr calls the module-level
\* store is the one opened for the zarr_path of the most recent call.
C23_Original_StoreIsForMostRecentCall ==
    IsLoadCall =>
        GLOBAL_STORE # None /\ GLOBAL_STORE.zarr_path = call.args.zarr_path

\* C23 as amended: the store is the one opened for the zarr_path of the most
\* recent call whose store could be opened; a call with the current store's
\* path reuses that store and opens nothing, a call with another path (or
\* the first call) opens exactly one new store that replaces it, and a call
\* whose store cannot be opened raises and leaves the store it found.
C23_StoreFollowsCallsThatOpen ==
    [][IsLoadCall' =>
          LET p == call'.args.zarr_path
              reuse == GLOBAL_STORE # None /\ GLOBAL_STORE.zarr_path = p
          IN /\ reuse => /\ UNCHANGED <<GLOBAL_STORE, opened>>
                         /\ IsLoadReturn'
             /\ (~reuse /\ IsLoadReturn') =>
                    /\ opened' = Append(opened, p)
                    /\ GLOBAL_STORE' = [id |-> Len(opened'), zarr_path |-> p]
                    /\ GLOBAL_STORE' # GLOBAL_STORE
             /\ ~IsLoadReturn' => (~reuse /\ UNCHANGED <<GLOBAL_STORE, opened, series_cache>>)
             /\ GLOBAL_STORE' # None =>
                    opened'[GLOBAL_STORE'.id] = GLOBAL_STORE'.zarr_path]_vars

C23_Witness ==
    /\ IsLoadReturn
    /\ ~call.opens
    /\ opened = <<"a.zarr", "b.zarr", "a.zarr">>
    /\ GLOBAL_STORE = [id |-> 3, zarr_path |-> "a.zarr"]

C23_WitnessOpenFailed ==
    /\ IsLoadCall /\ ~IsLoadReturn
    /\ call.args.zarr_path = MissingPath
    /\ GLOBAL_STORE # None /\ GLOBAL_STORE.zarr_path = "b.zarr"

\* what a read of the store with identity `self` gives for a cache key
FreshRead(key) ==
    ReadSeries(opened[key.self], key.ilat, key.ilon, key.unit)

CacheKeys(cache) == {cache[i].key : i \in 1..Len(cache)}

\* C24: the series cache is keyed by (store instance, ilat, ilon, unit) and
\* bounded with least-recently-used eviction: a lookup returns what a fresh
\* read of the current store at the queried grid index and unit returns,
\* every cached series is the one read for its own key, no key is cached
\* twice, a full cache drops its least recently used entry, and the cache
\* never holds more than maxsize entries.
C24_CacheKeyedByStoreIndexUnit ==
    [][IsLoadReturn' =>
          LET idx == nearest_index(call'.args.lat, call'.args.lon)
              key == [self |-> GLOBAL_STORE'.id, ilat |-> idx.ilat, ilon |-> idx.ilon,
                      unit |-> call'.args.unit]
              n == Len(series_cache')
          IN /\ call'.series
                  = ReadSeries(GLOBAL_STORE'.zarr_path, idx.ilat, idx.ilon, call'.args.unit)
             /\ n <= maxsize
             /\ Cardinality(CacheKeys(series_cache')) = n
             /\ \A i \in 1..n :
                   /\ series_cache'[i].key.self \in 1..Len(opened')
                   /\ series_cache'[i].value
                        = ReadSeries(opened'[series_cache'[i].key.self],
                                     series_cache'[i].key.ilat, series_cache'[i].key.ilon,
                                     series_cache'[i].key.unit)
             /\ series_cache'[n].key = key
             /\ call'.hit <=> key \in CacheKeys(series_cache)
             /\ call'.evicted <=> (~call'.hit /\ Len(series_cache) = maxsize)
             /\ SubSeq(series_cache', 1, n - 1)
                  = SelectSeq(IF call'.evicted THEN Tail(series_cache) ELSE series_cache,
                              LAMBDA e : e.key # key)]_vars

\* a hit on the series cached for the current store while the same grid index
\* and unit are also cached for the store it replaced
C24_Witness ==
    /\ IsLoadReturn /\ call.hit
    /\ Len(series_cache) = maxsize /\ maxsize >= 2
    /\ LET old == series_cache[maxsize - 1].key
           new == series_cache[maxsize].key
       IN /\ old.self # new.self
          /\ opened[old.self] # opened[new.self]
          /\ [old EXCEPT !.self = new.self] = new
          /\ call.series = FreshRead(new)
          /\ call.series # FreshRead(old)

C24_WitnessEvicted ==
    /\ IsLoadReturn /\ call.evicted
    /\ Len(series_cache) = maxsize

----------------------------------------------------------------------------
(* Claims about the payout rule, checked under SpecPayouts *)

ProperSchedule == strike > exit /\ ppa > 0

\* a payout for one value: within [0, limit], 0 exactly at or above the
\* strike, the limit exactly at or below the exit
PayoutWithinSchedule(v, payout) ==
    LET lim == (strike - exit) * ppa
    IN /\ 0 <= payout /\ payout <= lim
       /\ payout = 0 <=> v >= strike
       /\ payout = lim <=> v <= exit

\* payouts never rise with the value
NonIncreasing(vs, payouts) ==
    \A i, j \in 1..Len(vs) : vs[i] <= vs[j] => payouts[i] >= payouts[j]

PayoutsWithinSchedule ==
    /\ IsPayoutsReturn =>
          \A c \in {<<"Rescaled_Energy_MWh", "Payout_Untrended">>,
                    <<"User_Detrended", "Payout_Detrended">>} :
              LET vs == Column(call.ret.df, c[1])
                  ps == Column(call.ret.df, c[2])
              IN /\ \A i \in 1..Len(vs) : PayoutWithinSchedule(vs[i], ps[i])
                 /\ NonIncreasing(vs, ps)
    /\ (IsExpectedLossCall /\ call.limit = (strike - exit) * ppa) =>
          /\ \A i \in 1..Len(call.values) :
                PayoutWithinSchedule(call.values[i], call.capped[i])
          /\ NonIncreasing(call.values, call.capped)

ExpectedLossWithinLimit ==
    /\ call.ret.den > 0
    /\ 0 <= call.ret.num
    /\ call.ret.num <= call.limit * call.ret.den

C25_WitnessRows ==
    /\ ProperSchedule /\ IsPayoutsReturn
    /\ strike = 105 /\ exit = 90
    /\ Column(call.ret.df, "User_Detrended") = <<105, 90>>
    /\ Column(call.ret.df, "Payout_Detrended") = <<0, 75000>>

IsPayoutRules == call.op = "payout_rules"

\* C26: for strike >= exit and ppa >= 0, with the limit (strike - exit) * ppa,
\* expected_loss(values, ...) is the mean of the payouts calculate_payouts
\* gives to the same values, and the dashboard's inline computation returns
\* what expected_loss returns.
C26_PayoutRulesAgree ==
    (IsPayoutRules /\ strike >= exit /\ ppa >= 0) =>
        /\ call.ret = call.row_mean
        /\ call.inline = call.ret
        /\ Len(call.rows) = Len(call.values)

C26_Witness ==
    /\ IsPayoutRules
    /\ strike = 110 /\ exit = 100 /\ ppa = 5000
    /\ call.values = <<90, 105, 130>>
    /\ call.rows = <<50000, 25000, 0>>
    /\ call.ret = [num |-> 75000, den |-> 3]
    /\ call.inline = [num |-> 75000, den |-> 3]

\* the agreement needs the precondition: for a negative rate the rules differ
C26_WitnessOutsidePrecondition ==
    /\ IsPayoutRules /\ ppa < 0
    /\ call.ret # call.row_mean

IsBlowReturn == IsBlowCall /\ DOMAIN call.ret = 1..Len(call.values)

\* C27: apply_exponential_blow called with a direction other than 'D' or 'U'
\* (the configuration values "down" and "up" included) compresses nothing and
\* raises nothing: it returns every input value plus shift.
C27_OtherDirectionOnlyShifts ==
    (IsBlowCall /\ call.blow_dir \notin {"D", "U"}) =>
        /\ IsBlowReturn
        /\ \A i \in 1..Len(call.values) : call.ret[i] = call.values[i] + call.shift

\* "down" with a factor that would halve the distance of 84 to the pivot
C27_Witness ==
    /\ IsBlowCall
    /\ call.blow_dir = "down" /\ call.blow_factor = 1 /\ call.shift = 5
    /\ call.values = <<84, 100, 116>>
    /\ call.ret = <<89, 105, 121>>

C27_WitnessUp ==
    /\ IsBlowCall
    /\ call.blow_dir = "up" /\ call.blow_factor = -1 /\ call.shift = 0
    /\ call.values = <<116>>
    /\ call.ret = <<116>>

----------------------------------------------------------------------------
(* Claims about the dashboard script, checked under Spec *)

IsDashboard == path = "dashboard"

SobolStepFailed == IsDashboard /\ eloss.state = "None"

\* C28: a failure inside the dashboard's Sobol expected-loss step is contained
\* by its try/except: execution continues past the step, and the summary
\* tiles and the distribution-comparison plot are rendered without a further
\* exception caused by the missing expected loss, shape or scale.
C28_SobolFailureIsContained ==
    SobolStepFailed =>
        /\ err = "none"
        /\ pc \in {"display", "dash_plots", "returned"}

\* the try/except itself holds: the step ends without an exception leaving it
C28_StepItselfRaisesNothing ==
    (IsDashboard /\ pc = "display") => err = "none"

\* what happens instead: the fifth tile raises on the missing expected loss
C28_FailureSurfacesAtTheTiles ==
    (SobolStepFailed /\ pc # "display") =>
        /\ pc = "failed" /\ err = "TypeError"
        /\ out = SubSeq(DashTileLabels, 1, 4)

====
